---- MODULE Spec2Model ----
(***************************************************************************)
(* Model of the concurrent latency-measurement engine of dnsping           *)
(* (src/src/dnsping/scanner.py): DNSResult.update_latency,                 *)
(* DNSLatencyScanner._measure_server_latency, _scan_server_multiple,       *)
(* _display_live_results and _scan_all_servers, the three probes,          *)
(* is_valid_ip, load_dns_servers, _get_dns_resolver, run() and main().     *)
(*                                                                         *)
(* The program runs on one asyncio event loop: a task runs without         *)
(* interruption from one suspension point (an await that really suspends)  *)
(* to the next, so every action below is one such run of one task.         *)
(* asyncio.Lock.acquire does not suspend when the lock is free, and no     *)
(* task awaits while it holds self._lock, so the lock is free at every     *)
(* suspension point and taking it is never a suspension point.             *)
(*                                                                         *)
(* Latencies are exact rationals <<numerator, denominator>>; float("inf")  *)
(* is <<1, 0>>.  Floating-point rounding is not modelled.                  *)
(***************************************************************************)
EXTENDS Integers, Sequences, FiniteSets, TLC

VARIABLES
    config,          \* ScanConfig (frozen dataclass) and HAS_DNSPYTHON
    net,             \* what a probe of this run can hand back (the environment)
    dns_servers,     \* self.dns_servers
    running,         \* self.running
    results,         \* self.results, in insertion order of the keys
    stats,           \* self._stats
    sem_value,       \* semaphore._value
    sem_waiters,     \* semaphore._waiters (FIFO of worker indexes)
    wk,              \* per worker task: position and local variables
    mpc,             \* position of _scan_all_servers
    rpc,             \* position of the _display_live_results task
    must_cancel,     \* display_task.cancel() has been requested
    snapshot,        \* what the reporter last read under the lock
    m_args,          \* arguments of one _measure_server_latency call
    m_ret,           \* its return value
    record,          \* a DNSResult that update_latency is called on
    fed,             \* the new_latency argument of the last update_latency call
    accepted,        \* how many latencies the record took, their sum and range
    calls,           \* number of update_latency calls made on record
    probe_env,       \* what the network and the ping program do in one probe call
    probe_ret,       \* how that probe call ended
    ip,              \* the argument of one is_valid_ip call, a sequence of characters
    ip_ret,          \* <<what is_valid_ip returned>>, or <<>> before the call
    dns_file,        \* the lines of config.dns_file as readlines() gives them
    max_servers,     \* config.max_servers
    load,            \* load_dns_servers: position and local variables
    providers,       \* self.providers, as the sequence of its items
    args,            \* the parsed command line, HAS_DNSPYTHON and the file's state
    mainpc,          \* position of main() and of run() inside asyncio.run
    scanner_made,    \* DNSLatencyScanner(config) has been constructed
    exit_code,       \* the exit code of the process, NotExited while it runs
    interrupted,     \* the user has pressed Ctrl+C
    cancelling,      \* CancelledError is propagating in the main task
    printed,         \* the top-level messages printed so far
    resolver_pool,   \* len(self._resolver_pool)
    handle,          \* one resolver handle followed through the pool
    borrow,          \* open "async with self._get_dns_resolver()" blocks
    workers,         \* how the number of concurrent workers was decided
    elev,            \* PrivilegeManager._validate_arguments at work
    fin              \* the final table and the DNS selection

scanvars == <<dns_servers, running, results, stats, sem_value, sem_waiters,
              wk, mpc, rpc, must_cancel, snapshot>>
loadvars == <<dns_file, max_servers, load, providers>>
runvars == <<args, mainpc, scanner_made, exit_code, interrupted, cancelling,
             printed, workers, elev, fin>>
poolvars == <<resolver_pool, borrow, handle>>
callvars == <<record, fed, calls, accepted, probe_env, probe_ret, ip, ip_ret, loadvars,
              poolvars>>
unitvars == <<callvars, runvars>>
vars == <<config, net, scanvars, m_args, m_ret, unitvars>>

----------------------------------------------------------------------------
(* Bounds *)

MaxServers == 2      \* longest server list
MaxPings == 2        \* largest ping_count
MaxLat == 2          \* probe latencies of a one-server scan: 0, 10, .., 10*MaxLat ms
MaxProbe == 3        \* probe latencies of one attempt: 0, 10, .., 10*MaxProbe ms
MaxUpdates == 11     \* update_latency calls on one record
MaxAttempts == 3     \* largest ping_count of a traced one-server scan

----------------------------------------------------------------------------
(* Exact arithmetic on latencies *)

Inf == <<1, 0>>
IsInf(x) == x[2] = 0
Rat(n) == <<n, 1>>

Abs(n) == IF n < 0 THEN -n ELSE n

RECURSIVE GCD(_, _)
GCD(a, b) == IF b = 0 THEN a ELSE GCD(b, a % b)

Norm(n, d) ==
    LET g == GCD(Abs(n), d) IN <<n \div g, d \div g>>

RAdd(a, b) == Norm(a[1] * b[2] + b[1] * a[2], a[2] * b[2])
RMulInt(a, k) == Norm(a[1] * k, a[2])
RDivInt(a, k) == Norm(a[1], a[2] * k)
RLess(a, b) == a[1] * b[2] < b[1] * a[2]
RPositive(a) == a[1] > 0

Min(a, b) == IF a < b THEN a ELSE b

----------------------------------------------------------------------------
(* TestMethod and probe results *)

DNS_QUERY == "DNS_QUERY"
SOCKET_CONNECT == "SOCKET_CONNECT"
PING == "PING"
TestMethod == {DNS_QUERY, SOCKET_CONNECT, PING}

\* the order in which _measure_server_latency appends its tasks
MethodOrder == <<DNS_QUERY, SOCKET_CONNECT, PING>>

\* what one probe coroutine hands to gather(return_exceptions=True)
None == [k |-> "None", v |-> Inf]
Raised == [k |-> "Exception", v |-> Inf]
Float(x) == [k |-> "float", v |-> x]

ProbeResults(maxl) == {None, Raised} \cup {Float(Rat(10 * i)) : i \in 0..maxl}

\* the methods for which _measure_server_latency creates a task
TaskMethods(cfg) ==
    {m \in TestMethod :
        \/ m = DNS_QUERY /\ cfg.enable_dns_query /\ cfg.HAS_DNSPYTHON
        \/ m = SOCKET_CONNECT /\ cfg.enable_socket
        \/ m = PING /\ cfg.enable_ping}

\* lines 758-759, 779-780, 801-802: a probe that is switched off returns None
ProbeOutcomes(cfg, m, outcomes) ==
    IF m \in TaskMethods(cfg) THEN outcomes ELSE {None}

\* list.sort() on a list of latencies (ascending)
RECURSIVE InsertSorted(_, _)
InsertSorted(s, x) ==
    IF s = <<>> THEN <<x>>
    ELSE IF RLess(x, Head(s)) THEN <<x>> \o s
    ELSE <<Head(s)>> \o InsertSorted(Tail(s), x)

RECURSIVE Sort(_)
Sort(s) == IF s = <<>> THEN <<>> ELSE InsertSorted(Sort(Tail(s)), Head(s))

\* isinstance(result, (int, float)) and result != float("inf")
IsMeasurement(r) == r.k = "float" /\ ~IsInf(r.v)

\* the zip(results, methods) loop: the measurements list, in task order
RECURSIVE Measurements(_, _, _)
Measurements(cfg, res, i) ==
    IF i > Len(MethodOrder) THEN <<>>
    ELSE LET m == MethodOrder[i] IN
         IF m \in TaskMethods(cfg) /\ IsMeasurement(res[m])
         THEN <<res[m].v>> \o Measurements(cfg, res, i + 1)
         ELSE Measurements(cfg, res, i + 1)

\* mutant: every method that was tried counts as successful
SuccessfulMethodsTried(cfg, res) == TaskMethods(cfg)

SuccessfulMethods(cfg, res) ==
    {m \in TaskMethods(cfg) : IsMeasurement(res[m])}

\* mutant: the lower middle element
MedianIdxLower(n) == (n - 1) \div 2

\* mutant: the largest element
MedianIdxLast(n) == n - 1

\* measurements[len(measurements) // 2] (0-based) of the sorted list
MedianIdx(n) == n \div 2
best_latency(measurements) ==
    Sort(measurements)[MedianIdx(Len(measurements)) + 1]

\* _measure_server_latency: res[m] is what the probe of method m returns
measure_server_latency(cfg, res) ==
    LET measurements == Measurements(cfg, res, 1) IN
    IF TaskMethods(cfg) = {} THEN <<Inf, {}>>
    ELSE IF measurements # <<>>
         THEN <<best_latency(measurements), SuccessfulMethods(cfg, res)>>
         ELSE <<Inf, {}>>

----------------------------------------------------------------------------
(* IP_REGEX and is_valid_ip.  A string is a sequence of one-character      *)
(* strings.  The pattern is                                                *)
(*   ^(?:G\.){3}G$   with  G = 25[0-5] | 2[0-4][0-9] | [01]?[0-9][0-9]?    *)
(* and is matched as re.match does: a position set is the set of places    *)
(* the match can have reached (index of the next character to read).       *)

Digits == {"0", "1", "2", "3", "4", "5", "6", "7", "8", "9"}
UpTo4 == {"0", "1", "2", "3", "4"}
UpTo5 == {"0", "1", "2", "3", "4", "5"}
ZeroOne == {"0", "1"}

\* the character at position i is in class cls
CharIn(s, i, cls) == i >= 1 /\ i <= Len(s) /\ s[i] \in cls

\* {j} when the alternative matches, no position otherwise
When(matches, j) == IF matches THEN {j} ELSE {}

\* where a match of G that starts at position i can end
GroupEnds(s, i) ==
    When(CharIn(s, i, {"2"}) /\ CharIn(s, i + 1, {"5"})
            /\ CharIn(s, i + 2, UpTo5), i + 3)
    \cup When(CharIn(s, i, {"2"}) /\ CharIn(s, i + 1, UpTo4)
                /\ CharIn(s, i + 2, Digits), i + 3)
    \cup When(CharIn(s, i, Digits), i + 1)
    \cup When(CharIn(s, i, Digits) /\ CharIn(s, i + 1, Digits), i + 2)
    \cup When(CharIn(s, i, ZeroOne) /\ CharIn(s, i + 1, Digits), i + 2)
    \cup When(CharIn(s, i, ZeroOne) /\ CharIn(s, i + 1, Digits)
                /\ CharIn(s, i + 2, Digits), i + 3)

\* G from any of the positions
AfterGroup(s, from) == UNION {GroupEnds(s, i) : i \in from}

\* \. from any of the positions
AfterDot(s, from) == {i + 1 : i \in {j \in from : CharIn(s, j, {"."})}}

\* (?:G\.){n} from any of the positions
RECURSIVE AfterGroupsWithDot(_, _, _)
AfterGroupsWithDot(s, from, n) ==
    IF n = 0 THEN from
    ELSE AfterGroupsWithDot(s, AfterDot(s, AfterGroup(s, from)), n - 1)

GROUPS_WITH_DOT == 3

\* $ matches at the end of the string and just before a newline that ends it
AtEnd(s, i) ==
    \/ i = Len(s) + 1
    \/ i = Len(s) /\ s[i] = "\n"

\* bool(IP_REGEX.match(ip))
is_valid_ip(s) ==
    \E i \in AfterGroup(s, AfterGroupsWithDot(s, {1}, GROUPS_WITH_DOT)) :
        AtEnd(s, i)

----------------------------------------------------------------------------
(* load_dns_servers: the text operations on one line *)

Whitespace == {" ", "\t", "\n", "\r"}

RECURSIVE lstrip(_)
lstrip(s) ==
    IF s # <<>> /\ Head(s) \in Whitespace THEN lstrip(Tail(s)) ELSE s

RECURSIVE rstrip(_)
rstrip(s) ==
    IF s # <<>> /\ s[Len(s)] \in Whitespace
    THEN rstrip(SubSeq(s, 1, Len(s) - 1)) ELSE s

\* str.strip()
strip(s) == rstrip(lstrip(s))

\* str.startswith(prefix)
startswith(s, prefix) ==
    Len(s) >= Len(prefix) /\ SubSeq(s, 1, Len(prefix)) = prefix

\* self.providers[line] = current_provider on the dict kept as a sequence
SetProvider(prov, server, name) ==
    IF \E i \in 1..Len(prov) : prov[i].server = server
    THEN [i \in 1..Len(prov) |->
            IF prov[i].server = server
            THEN [server |-> server, provider |-> name] ELSE prov[i]]
    ELSE Append(prov, [server |-> server, provider |-> name])

\* line 719: len(servers) >= self.config.max_servers
LimitReached(servers, limit) == Len(servers) >= limit

\* lines 710-720: the loop body on one line that the reader has stripped
load_line(ld, prov, line, limit) ==
    IF line = <<>> \/ startswith(line, <<"/", "/">>)
    THEN <<ld, prov>>
    ELSE IF startswith(line, <<"#">>)
    THEN <<[ld EXCEPT !.current_provider = strip(Tail(line))], prov>>
    ELSE IF is_valid_ip(line)
    THEN LET servers == Append(ld.servers, line) IN
         <<[ld EXCEPT !.servers = servers,
                      !.pc = IF LimitReached(servers, limit)
                             THEN "break" ELSE @],
           SetProvider(prov, line, ld.current_provider)>>
    ELSE <<ld, prov>>

----------------------------------------------------------------------------
(* The three probe methods.  env says what the outside does in one call:   *)
(* raises > 0 when the first or second awaited operation raises an        *)
(* Exception (timeout, refused connection, ...), elapsed is the time       *)
(* measured in ms, returncode and output are what the ping program gives.  *)

SANITY_CEILING == 5000

\* latency if latency < 5000 else None
Ceiling(latency) ==
    IF RLess(latency, Rat(SANITY_CEILING)) THEN Float(latency) ELSE None

\* mutant: the exception is not caught
TryNoCatch(body) == body

\* try: ... except Exception: return None
Try(body) == IF body = Raised THEN None ELSE body

\* lines 756-775
measure_dns_query_latency(cfg, env) ==
    IF ~cfg.enable_dns_query \/ ~cfg.HAS_DNSPYTHON THEN None
    ELSE Try(IF env.raises # 0 THEN Raised ELSE Ceiling(env.elapsed))

\* lines 777-797
measure_socket_latency(cfg, env) ==
    IF ~cfg.enable_socket THEN None
    ELSE Try(IF env.raises # 0 THEN Raised ELSE Ceiling(env.elapsed))

\* lines 824-853: the average or time field of the output, as float() gives
\* it; a field that float() rejects is skipped, no field gives None
parse_ping_output(output) ==
    IF output.k = "value" THEN Float(output.v) ELSE None

\* lines 799-855
measure_ping_latency(cfg, env) ==
    IF ~cfg.enable_ping THEN None
    ELSE Try(IF env.raises # 0 THEN Raised
             ELSE IF env.returncode # 0 THEN None
             ELSE parse_ping_output(env.output))

measure_probe(cfg, env) ==
    CASE env.method = DNS_QUERY -> measure_dns_query_latency(cfg, env)
      [] env.method = SOCKET_CONNECT -> measure_socket_latency(cfg, env)
      [] env.method = PING -> measure_ping_latency(cfg, env)

----------------------------------------------------------------------------
(* DNSResult *)

display_name(m) ==
    CASE m = DNS_QUERY -> "DNS"
      [] m = SOCKET_CONNECT -> "Socket"
      [] m = PING -> "Ping"

\* "/".join(sorted(m.display_name for m in all_methods)): "DNS" < "Ping" < "Socket"
SortedNames == <<"DNS", "Ping", "Socket">>
\* mutant: the names in the order of the methods' priority
method_namesByPriority(all_methods) ==
    SelectSeq(<<"DNS", "Socket", "Ping">>,
              LAMBDA n : \E m \in all_methods : display_name(m) = n)

method_names(all_methods) ==
    SelectSeq(SortedNames, LAMBDA n : \E m \in all_methods : display_name(m) = n)

\* the three shapes of DNSResult.status
StatusPending == [kind |-> "Pending", names |-> <<>>, num |-> 0, den |-> 0]
StatusFailed(P) == [kind |-> "Failed", names |-> <<>>, num |-> 0, den |-> P]
StatusOK(all_methods, s, P) ==
    [kind |-> "OK", names |-> method_names(all_methods), num |-> s, den |-> P]

\* DNSResult(server=server): the dataclass defaults
DNSResult(server) ==
    [server |-> server, latency |-> Inf, avg_latency |-> Inf,
     status |-> StatusPending, ping_count |-> 0, successful_methods |-> {}]

WEIGHT_CAP == 10

\* mutant: the weight is not capped
WeightUncapped(count) == count

\* line 608: weight = min(self.ping_count, 10)
Weight(count) == Min(count, WEIGHT_CAP)

\* mutant: every finite latency is accepted
ValidLatencyAnyFinite(new_latency) == ~IsInf(new_latency)

\* line 602: new_latency != float("inf") and new_latency > 0
ValidLatency(new_latency) == ~IsInf(new_latency) /\ RPositive(new_latency)

\* line 609: ((self.avg_latency * (weight - 1)) + new_latency) / weight,
\* the three operations without rounding
Blend(avg, new_latency, weight) ==
    RDivInt(RAdd(RMulInt(avg, weight - 1), new_latency), weight)

\* DNSResult.update_latency in exact arithmetic
update_latency(self, new_latency, method) ==
    IF ValidLatency(new_latency)
    THEN LET count == self.ping_count + 1
             weight == Weight(count)
         IN [self EXCEPT
                !.ping_count = count,
                !.avg_latency =
                    IF IsInf(self.avg_latency) THEN new_latency
                    ELSE Blend(self.avg_latency, new_latency, weight),
                !.latency = new_latency,
                !.successful_methods = @ \cup {method}]
    ELSE self

\* Python floats are binary floating point numbers: the result of every
\* operation is rounded to the nearest number with a significand of 53 bits,
\* ties to the even one.  Here the significand has FloatBits bits.
FloatBits == 4

RECURSIVE Pow2(_)
Pow2(n) == IF n = 0 THEN 1 ELSE 2 * Pow2(n - 1)

\* the integer nearest to q >= 0, the even one of two equally near
NearestEven(q) ==
    LET f == q[1] \div q[2]
        r == q[1] % q[2]
    IN  IF 2 * r < q[2] THEN f
        ELSE IF 2 * r > q[2] THEN f + 1
        ELSE IF f % 2 = 0 THEN f ELSE f + 1

\* q > 0 rounded to FloatBits significant bits
RECURSIVE Fl(_)
Fl(q) ==
    IF RLess(q, Rat(Pow2(FloatBits - 1))) THEN RDivInt(Fl(RMulInt(q, 2)), 2)
    ELSE IF ~RLess(q, Rat(Pow2(FloatBits))) THEN RMulInt(Fl(RDivInt(q, 2)), 2)
    ELSE Rat(NearestEven(q))

\* line 609 as Python computes it: a product, a sum and a quotient, each
\* rounded
BlendFloat(avg, new_latency, weight) ==
    Fl(RDivInt(Fl(RAdd(Fl(RMulInt(avg, weight - 1)), new_latency)), weight))

\* DNSResult.update_latency in floating point arithmetic
update_latency_float(self, new_latency, method) ==
    IF ValidLatency(new_latency)
    THEN LET count == self.ping_count + 1
             weight == Weight(count)
         IN [self EXCEPT
                !.ping_count = count,
                !.avg_latency =
                    IF IsInf(self.avg_latency) THEN new_latency
                    ELSE BlendFloat(self.avg_latency, new_latency, weight),
                !.latency = new_latency,
                !.successful_methods = @ \cup {method}]
    ELSE self

----------------------------------------------------------------------------
(* self.results: a dict, kept as the sequence of its values in key order *)

HasKey(res, server) == \E i \in 1..Len(res) : res[i].server = server
KeyIndex(res, server) == CHOOSE i \in 1..Len(res) : res[i].server = server
Lookup(res, server) == res[KeyIndex(res, server)]

\* self.results[server] = result
SetItem(res, result) ==
    IF HasKey(res, result.server)
    THEN [res EXCEPT ![KeyIndex(res, result.server)] = result]
    ELSE Append(res, result)

----------------------------------------------------------------------------
(* _scan_server_multiple: the local variables of one worker task.          *)
(* all_raised is a history flag: no attempt of the worker has returned yet *)
(* (each one made so far raised).  hist is a history variable too: how     *)
(* each call of _measure_server_latency made so far has ended; it is kept  *)
(* for a traced worker only (the scans of one server).                     *)

Workers == 1..Len(dns_servers)

\* how one call of _measure_server_latency ended
ReturnedAttempt(latency, methods) ==
    [k |-> "returned", latency |-> latency, methods |-> methods]
RaisedAttempt == [k |-> "raised", latency |-> Inf, methods |-> {}]

NewWorker(server) ==
    [pc |-> "none", server |-> server, attempt |-> 0, all_raised |-> TRUE,
     successful_tests |-> 0, total_latency |-> Rat(0), all_methods |-> {},
     result |-> DNSResult(server), traced |-> FALSE, hist |-> <<>>]

TracedWorker(server) == [NewWorker(server) EXCEPT !.traced = TRUE]

Record(loc, entry) ==
    IF loc.traced THEN [loc EXCEPT !.hist = Append(@, entry)] ELSE loc

\* lines 913-917: one returned (latency, methods); method is next(iter(methods))
Accumulate(loc, latency, methods, method) ==
    IF ~IsInf(latency) /\ methods # {}
    THEN [loc EXCEPT
            !.total_latency = RAdd(@, latency),
            !.successful_tests = @ + 1,
            !.all_methods = @ \cup methods,
            !.result = update_latency(@, latency, method)]
    ELSE loc

\* lines 920-921: the pause follows every attempt but the last
PauseFollows(attempt, P) == attempt < P - 1

\* mutant: the incremental average is kept
FinalResultIncremental(loc, P) ==
    IF loc.successful_tests > 0
    THEN [loc.result EXCEPT
            !.status = StatusOK(loc.all_methods, loc.successful_tests, P)]
    ELSE [loc.result EXCEPT !.status = StatusFailed(P)]

\* lines 927-935 on the local result
FinalResult(loc, P) ==
    IF loc.successful_tests > 0
    THEN [loc.result EXCEPT
            !.avg_latency = RDivInt(loc.total_latency, loc.successful_tests),
            !.status = StatusOK(loc.all_methods, loc.successful_tests, P)]
    ELSE [loc.result EXCEPT !.status = StatusFailed(P)]

\* mutant: a failed server is counted as scanned only
FinalStatsFailedLost(st, loc) ==
    [scanned |-> st.scanned + 1,
     successful |-> st.successful + (IF loc.successful_tests > 0 THEN 1 ELSE 0),
     failed |-> st.failed]

\* lines 932, 935, 940 on self._stats
FinalStats(st, loc) ==
    [scanned |-> st.scanned + 1,
     successful |-> st.successful + (IF loc.successful_tests > 0 THEN 1 ELSE 0),
     failed |-> st.failed + (IF loc.successful_tests > 0 THEN 0 ELSE 1)]

\* line 911 returned at loc.attempt, lines 913-921 follow
AfterReturn(loc, latency, methods, method, cfg) ==
    LET l2 == Record(Accumulate(loc, latency, methods, method),
                     ReturnedAttempt(latency, methods)) IN
    [l2 EXCEPT !.all_raised = FALSE,
               !.pc = IF PauseFollows(l2.attempt, cfg.ping_count)
                      THEN "pausing" ELSE "finalize"]

\* line 911: with no task to gather, _measure_server_latency returns
\* (inf, set()) without suspending; otherwise the worker waits for the probes
CallMeasure(loc, cfg) ==
    IF TaskMethods(cfg) = {}
    THEN AfterReturn(loc, Inf, {}, DNS_QUERY, cfg)
    ELSE [loc EXCEPT !.pc = "probing"]

\* mutant: the loop ends at the first usable attempt
NextIterationUntilSuccess(loc, next, cfg) ==
    IF next < cfg.ping_count /\ loc.successful_tests = 0
    THEN CallMeasure([loc EXCEPT !.attempt = next], cfg)
    ELSE [loc EXCEPT !.pc = "finalize"]

\* line 909: the next value of range(ping_count), or the end of the loop
NextIteration(loc, next, cfg) ==
    IF next < cfg.ping_count
    THEN CallMeasure([loc EXCEPT !.attempt = next], cfg)
    ELSE [loc EXCEPT !.pc = "finalize"]

\* mutant: an attempt that raised is counted as a success of 0 ms
AfterRaiseCounted(loc, cfg) ==
    NextIteration([loc EXCEPT !.successful_tests = @ + 1], loc.attempt + 1, cfg)

\* mutant: the exception ends the worker's loop
AfterRaiseAborts(loc, cfg) ==
    [loc EXCEPT !.pc = "finalize"]

\* lines 923-925: the except clause goes straight to the next iteration
AfterRaise(loc, cfg) ==
    NextIteration(Record(loc, RaisedAttempt), loc.attempt + 1, cfg)

----------------------------------------------------------------------------
(* _display_live_results: the snapshot read under the lock *)

NoSnapshot ==
    [taken |-> FALSE, scanned |-> 0, successful |-> 0, total |-> 0,
     rows |-> <<>>, remaining |-> 0]

FAILED_SORT_KEY == 999999
TOP_ROWS == 15

\* key=lambda x: x.avg_latency if x.avg_latency != float("inf") else 999999
SortKey(x) == IF IsInf(x.avg_latency) THEN Rat(FAILED_SORT_KEY) ELSE x.avg_latency

\* sorted(..., key=...) is stable: x goes after every element not above it
RECURSIVE InsertByKey(_, _)
InsertByKey(s, x) ==
    IF s = <<>> THEN <<x>>
    ELSE IF RLess(SortKey(x), SortKey(Head(s))) THEN <<x>> \o s
    ELSE <<Head(s)>> \o InsertByKey(Tail(s), x)

RECURSIVE SortedFrom(_, _)
SortedFrom(res, n) ==
    IF n = 0 THEN <<>> ELSE InsertByKey(SortedFrom(res, n - 1), res[n])

sorted_results(res) == SortedFrom(res, Len(res))

\* what a display pass leaves in self.results; list.sort() on the stored
\* records would reorder them
AfterDisplaySortedInPlace(res) == sorted_results(res)

\* lines 1030-1037: sorted() builds a new list, self.results is only read
AfterDisplay(res) == res

\* lines 1014-1069
TakeSnapshot ==
    LET sorted == sorted_results(results) IN
    [taken |-> TRUE,
     scanned |-> stats.scanned,
     successful |-> stats.successful,
     total |-> Len(dns_servers),
     rows |-> [i \in 1..Min(TOP_ROWS, Len(sorted)) |-> sorted[i].server],
     remaining |-> IF Len(sorted) > TOP_ROWS THEN Len(sorted) - TOP_ROWS ELSE 0]

----------------------------------------------------------------------------
(* Actions: one run of one task between two suspension points.  A reporter *)
(* that never suspends ("spinning") keeps the event loop to itself.        *)

LoopFree == rpc # "spinning"

\* line 1088: display_task is created before the scan tasks and the event
\* loop runs ready tasks first-in first-out, so the reporter has its first run
\* before any worker starts and before any sleep is over
ReporterFirst == rpc # "created"

\* mutant: the semaphore lets every worker in
SemAlwaysFree(value) == TRUE

\* line 901, "async with semaphore": acquire returns at once while a slot is
\* free, otherwise the worker queues up behind the earlier waiters
SemFree(value) == value > 0

\* the end of _scan_server_multiple: lines 927-940 and the exit of
\* "async with semaphore"; sv is the semaphore's value when the worker holds it
Finish(w, loc, sv) ==
    LET final == FinalResult(loc, config.ping_count)
        me == [loc EXCEPT !.pc = "done", !.result = final]
    IN /\ results' = SetItem(results, final)
       /\ stats' = FinalStats(stats, loc)
       /\ IF sem_waiters = <<>>
          THEN /\ sem_value' = sv + 1
               /\ sem_waiters' = sem_waiters
               /\ wk' = [wk EXCEPT ![w] = me]
          ELSE /\ sem_value' = sv
               /\ sem_waiters' = Tail(sem_waiters)
               /\ wk' = [wk EXCEPT ![w] = me, ![Head(sem_waiters)].pc = "granted"]

\* the worker stops at its next suspension point, or finishes
Proceed(w, loc, sv) ==
    IF loc.pc = "finalize"
    THEN Finish(w, loc, sv)
    ELSE /\ wk' = [wk EXCEPT ![w] = loc]
         /\ sem_value' = sv
         /\ UNCHANGED <<results, stats, sem_waiters>>

\* _scan_all_servers, lines 1085-1095
ScanStart ==
    /\ mpc = "start"
    /\ sem_value' = config.max_workers
    /\ rpc' = "created"
    /\ wk' = [w \in Workers |-> [wk[w] EXCEPT !.pc = "created"]]
    /\ mpc' = IF Workers = {} THEN "final_sleep" ELSE "gathering"
    /\ UNCHANGED <<config, net, dns_servers, running, results, stats, sem_waiters,
                   must_cancel, snapshot, m_args, m_ret,
                   unitvars>>

\* a worker task starts: "async with semaphore" and the first call
WorkerStart(w) ==
    /\ LoopFree
    /\ ReporterFirst
    /\ wk[w].pc = "created"
    /\ IF SemFree(sem_value)
       THEN Proceed(w, NextIteration(wk[w], 0, config), sem_value - 1)
       ELSE /\ sem_waiters' = Append(sem_waiters, w)
            /\ wk' = [wk EXCEPT ![w].pc = "waiting"]
            /\ UNCHANGED <<results, stats, sem_value>>
    /\ UNCHANGED <<config, net, dns_servers, running, mpc, rpc, must_cancel,
                   snapshot, m_args, m_ret,
                   unitvars>>

\* a worker coroutine raises as soon as it runs; gather(return_exceptions=True)
\* keeps the exception as that worker's result
WorkerRaise(w) ==
    /\ LoopFree
    /\ ReporterFirst
    /\ wk[w].pc = "created"
    /\ wk' = [wk EXCEPT ![w].pc = "raised"]
    /\ UNCHANGED <<config, net, dns_servers, running, results, stats, sem_value,
                   sem_waiters, mpc, rpc, must_cancel, snapshot,
                   m_args, m_ret,
                   unitvars>>

\* a worker that waited for the semaphore was handed a slot by a release
SemGranted(w) ==
    /\ LoopFree
    /\ wk[w].pc = "granted"
    /\ Proceed(w, NextIteration(wk[w], 0, config), sem_value)
    /\ UNCHANGED <<config, net, dns_servers, running, mpc, rpc, must_cancel,
                   snapshot, m_args, m_ret,
                   unitvars>>

\* _measure_server_latency returns: every probe task of the attempt has ended
ProbeReturn(w) ==
    /\ LoopFree
    /\ wk[w].pc = "probing"
    /\ \E res \in [TaskMethods(config) -> net] :
         LET ret == measure_server_latency(config, res) IN
         \E method \in IF ret[2] = {} THEN {DNS_QUERY} ELSE ret[2] :
            Proceed(w, AfterReturn(wk[w], ret[1], ret[2], method, config),
                    sem_value)
    /\ UNCHANGED <<config, net, dns_servers, running, mpc, rpc, must_cancel,
                   snapshot, m_args, m_ret,
                   unitvars>>

\* _measure_server_latency raises an Exception into the worker
MeasureRaise(w) ==
    /\ LoopFree
    /\ wk[w].pc = "probing"
    /\ Proceed(w, AfterRaise(wk[w], config), sem_value)
    /\ UNCHANGED <<config, net, dns_servers, running, mpc, rpc, must_cancel,
                   snapshot, m_args, m_ret,
                   unitvars>>

\* asyncio.sleep(0.02) is over: the next attempt
PauseDone(w) ==
    /\ LoopFree
    /\ wk[w].pc = "pausing"
    /\ Proceed(w, NextIteration(wk[w], wk[w].attempt + 1, config), sem_value)
    /\ UNCHANGED <<config, net, dns_servers, running, mpc, rpc, must_cancel,
                   snapshot, m_args, m_ret,
                   unitvars>>

\* mutant: gather returns with the first worker that ends
GatheredFirst == \E w \in Workers : wk[w].pc \in {"done", "raised"}

\* gather(*scan_tasks, return_exceptions=True) is complete
Gathered == \A w \in Workers : wk[w].pc \in {"done", "raised"}

\* line 1095: gather returns once every worker has returned or raised
GatherDone ==
    /\ LoopFree
    /\ mpc = "gathering"
    /\ Gathered
    /\ mpc' = "final_sleep"
    /\ UNCHANGED <<config, net, dns_servers, running, results, stats, sem_value,
                   sem_waiters, wk, rpc, must_cancel, snapshot,
                   m_args, m_ret,
                   unitvars>>

\* lines 1098-1105: sleep(1.5) is over; the finally block up to the await
FinalSleepDone ==
    /\ LoopFree
    /\ ReporterFirst
    /\ mpc = "final_sleep"
    /\ running' = FALSE
    /\ must_cancel' = (rpc \in {"created", "sleeping"})
    /\ mpc' = IF rpc \in {"created", "sleeping"} THEN "joining" ELSE "returned"
    /\ UNCHANGED <<config, net, dns_servers, results, stats, sem_value, sem_waiters,
                   wk, rpc, snapshot, m_args, m_ret,
                   unitvars>>

\* one run of the reporter loop, lines 994-1080, from its start or from a
\* wake-up of sleep(0.1) to its next sleep.  Time is abstract: last_update
\* starts at 0.0, so the first run renders; after a sleep the interval may or
\* may not be over; right after a render it is over only when update_interval
\* is not longer than a render takes (update_interval "none"), and then the
\* loop renders again without ever suspending.
ReporterRun ==
    /\ LoopFree
    /\ rpc \in {"created", "sleeping"}
    /\ ~must_cancel
    /\ \E due \in BOOLEAN :
         /\ rpc = "created" => due
         /\ config.update_interval = "none" => due
         /\ IF ~running
            THEN /\ rpc' = "done"
                 /\ UNCHANGED snapshot
            ELSE IF ~due
            THEN /\ rpc' = "sleeping"
                 /\ UNCHANGED snapshot
            ELSE /\ snapshot' = TakeSnapshot
                 /\ rpc' = IF config.update_interval = "none"
                           THEN "spinning" ELSE "sleeping"
    /\ results' = AfterDisplay(results)
    /\ UNCHANGED <<config, net, dns_servers, running, stats, sem_value,
                   sem_waiters, wk, mpc, must_cancel, m_args, m_ret,
                   unitvars>>

\* display_task.cancel(): CancelledError is thrown into the reporter at its
\* suspension point and ends the task
ReporterCancelled ==
    /\ LoopFree
    /\ must_cancel
    /\ rpc \in {"created", "sleeping"}
    /\ rpc' = "cancelled"
    /\ must_cancel' = FALSE
    /\ UNCHANGED <<config, net, dns_servers, running, results, stats, sem_value,
                   sem_waiters, wk, mpc, snapshot, m_args, m_ret,
                   unitvars>>

\* lines 1105-1107: "await display_task" ends, _scan_all_servers returns
JoinDone ==
    /\ LoopFree
    /\ mpc = "joining"
    /\ rpc \in {"cancelled", "done"}
    /\ mpc' = "returned"
    /\ UNCHANGED <<config, net, dns_servers, running, results, stats, sem_value,
                   sem_waiters, wk, rpc, must_cancel, snapshot,
                   m_args, m_ret,
                   unitvars>>

----------------------------------------------------------------------------
(* The scan *)

\* server lists up to renaming of addresses: the address first seen i-th is i
RECURSIVE MaxOf(_)
MaxOf(s) == IF s = <<>> THEN 0
            ELSE IF Head(s) > MaxOf(Tail(s)) THEN Head(s) ELSE MaxOf(Tail(s))

ServerLists ==
    {s \in UNION {[1..n -> 1..MaxServers] : n \in 0..MaxServers} :
        \A i \in 1..Len(s) : s[i] <= MaxOf(SubSeq(s, 1, i - 1)) + 1}

Flags == [enable_dns_query : BOOLEAN, enable_socket : BOOLEAN,
          enable_ping : BOOLEAN, HAS_DNSPYTHON : BOOLEAN]

\* a scan of several servers is explored with at most the ping probe enabled
PingOnlyFlags == {f \in Flags : ~f.enable_dns_query /\ ~f.enable_socket
                                /\ f.HAS_DNSPYTHON}

MakeConfig(f, p, k, u) ==
    [enable_dns_query |-> f.enable_dns_query, enable_socket |-> f.enable_socket,
     enable_ping |-> f.enable_ping, HAS_DNSPYTHON |-> f.HAS_DNSPYTHON,
     ping_count |-> p, max_workers |-> k, update_interval |-> u]

\* update_interval against the time one render takes: not longer ("none",
\* as with -u 0), or longer ("some", as with the default 0.5 s)
Intervals == {"none", "some"}

\* max_workers above the number of servers leaves the semaphore uncontended
MaxWorkers == MaxServers

Configs(flags) ==
    {MakeConfig(f, p, k, u) :
        f \in flags, p \in 0..MaxPings, k \in 1..MaxWorkers, u \in Intervals}

\* no probe call is looked at
NoProbe == [method |-> PING, raises |-> 0, elapsed |-> Rat(0), returncode |-> 0,
            output |-> [k |-> "none", v |-> Rat(0)]]

IdleProbe == probe_env = NoProbe

\* no latency has been fed to the record
NoAccepted == [n |-> 0, sum |-> Rat(0), lo |-> Inf, hi |-> Rat(0)]

\* line 690: the provider of addresses listed before any "#" header
UNKNOWN_PROVIDER ==
    <<"U", "n", "k", "n", "o", "w", "n", " ",
      "P", "r", "o", "v", "i", "d", "e", "r">>

\* load_dns_servers has not been called: servers and current_provider are
\* as lines 689-690 set them
NoLoad == [pc |-> "idle", pos |-> 0, servers |-> <<>>,
           current_provider |-> UNKNOWN_PROVIDER]
IdleLoad ==
    /\ dns_file = <<>>
    /\ max_servers = 0
    /\ load = NoLoad
    /\ providers = <<>>

\* line 650: the pool is empty and no resolver is borrowed
NoBorrow == [open |-> 0, last |-> "none"]
\* one resolver handle followed through the pool: pos is its place in the
\* deque counted from the left (0: not in the deque), users the probes that
\* are inside "async with" with it, query_of the server of the probe that
\* has held it longest
NoHandle ==
    [made |-> FALSE, pos |-> 0, users |-> 0, nameservers |-> 0,
     query_of |-> 0, ended |-> "none", dropped |-> FALSE]
IdlePool ==
    /\ resolver_pool = 0
    /\ borrow = NoBorrow
    /\ handle = NoHandle

\* exit_code while the process runs
NotExited == -1

\* main() and run() are not looked at
NoArgs == [no_dns |-> FALSE, no_socket |-> FALSE, no_ping |-> FALSE,
           HAS_DNSPYTHON |-> TRUE, file |-> "ok"]
\* cpu_count 0 stands for os.cpu_count() returning None; w is args.workers
NoWorkers == [pc |-> "idle", cpu_count |-> 0, w |-> 0, max_workers |-> 0]
NoElev == [pc |-> "idle", args |-> <<>>, i |-> 0, safe_args |-> <<>>,
           skip_next |-> FALSE]
\* _display_final_results has not been called; server 0 is no server
NoFinal == [pc |-> "idle", provider |-> <<>>, rows |-> <<>>,
            successful_count |-> 0, choice |-> 0, primary |-> 0,
            secondary |-> 0]
IdleRun ==
    /\ workers = NoWorkers
    /\ elev = NoElev
    /\ fin = NoFinal
    /\ args = NoArgs
    /\ mainpc = "idle"
    /\ scanner_made = TRUE
    /\ exit_code = NotExited
    /\ interrupted = FALSE
    /\ cancelling = FALSE
    /\ printed = <<>>

\* no is_valid_ip call is looked at
IdleIp == ip = <<>> /\ ip_ret = <<>>

\* DNSLatencyScanner.__init__
InitFields ==
    /\ running = TRUE
    /\ results = <<>>
    /\ stats = [scanned |-> 0, successful |-> 0, failed |-> 0]
    /\ sem_value = 0
    /\ sem_waiters = <<>>
    /\ rpc = "none"
    /\ must_cancel = FALSE
    /\ snapshot = NoSnapshot
    /\ m_ret = <<>>
    /\ record = DNSResult(1)
    /\ fed = Inf
    /\ accepted = NoAccepted
    /\ calls = 0
    /\ probe_ret = <<>>

\* DNSLatencyScanner.__init__, then run() has loaded self.dns_servers and is
\* about to call _scan_all_servers
InitScanner ==
    /\ InitFields
    /\ mpc = "start"

\* scans of up to MaxServers servers whose probes fail, raise or take 10 ms
Init ==
    /\ config \in Configs(PingOnlyFlags)
    /\ net = {None, Raised, Float(Rat(10))}
    /\ dns_servers \in ServerLists
    /\ m_args = [m \in TestMethod |-> None]
    /\ wk = [w \in 1..Len(dns_servers) |-> NewWorker(dns_servers[w])]
    /\ InitScanner
    /\ IdleProbe
    /\ IdleIp
    /\ IdleLoad
    /\ IdlePool
    /\ IdleRun

Next ==
    \/ ScanStart
    \/ \E w \in Workers : WorkerStart(w)
    \/ \E w \in Workers : WorkerRaise(w)
    \/ \E w \in Workers : SemGranted(w)
    \/ \E w \in Workers : ProbeReturn(w)
    \/ \E w \in Workers : MeasureRaise(w)
    \/ \E w \in Workers : PauseDone(w)
    \/ GatherDone
    \/ FinalSleepDone
    \/ ReporterRun
    \/ ReporterCancelled
    \/ JoinDone

Spec == Init /\ [][Next]_vars

\* scans of one server with every combination of methods and latencies
InitWorker ==
    /\ config \in {c \in Configs(Flags) : c.max_workers = 1}
    /\ net = ProbeResults(MaxLat)
    /\ dns_servers = <<1>>
    /\ m_args = [m \in TestMethod |-> None]
    /\ wk = [w \in 1..Len(dns_servers) |-> TracedWorker(dns_servers[w])]
    /\ InitScanner
    /\ IdleProbe
    /\ IdleIp
    /\ IdleLoad
    /\ IdlePool
    /\ IdleRun

\* with one server no worker ever queues up for the semaphore
NextWorker ==
    \/ ScanStart
    \/ \E w \in Workers : WorkerStart(w)
    \/ \E w \in Workers : WorkerRaise(w)
    \/ \E w \in Workers : ProbeReturn(w)
    \/ \E w \in Workers : MeasureRaise(w)
    \/ \E w \in Workers : PauseDone(w)
    \/ GatherDone
    \/ FinalSleepDone
    \/ ReporterRun
    \/ ReporterCancelled
    \/ JoinDone

SpecWorker == InitWorker /\ [][NextWorker]_vars

----------------------------------------------------------------------------
(* One call of _measure_server_latency on arbitrary probe results *)

InitMeasure ==
    /\ config \in {c \in Configs(Flags) :
            c.ping_count = 1 /\ c.max_workers = 1 /\ c.update_interval = "some"}
    /\ net = ProbeResults(MaxProbe)
    /\ dns_servers = <<>>
    /\ wk = <<>>
    /\ InitScanner
    /\ IdleProbe
    /\ IdleIp
    /\ IdleLoad
    /\ IdlePool
    /\ IdleRun
    /\ m_args \in [TestMethod -> net]
    /\ \A m \in TestMethod : m_args[m] \in ProbeOutcomes(config, m, net)

Measure ==
    /\ m_ret = <<>>
    /\ m_ret' = measure_server_latency(config, m_args)
    /\ UNCHANGED <<config, net, scanvars, m_args, unitvars>>

NextMeasure == Measure

SpecMeasure == InitMeasure /\ [][NextMeasure]_vars

----------------------------------------------------------------------------
(* Claims about one call of _measure_server_latency (SpecMeasure) *)

Called == m_ret # <<>>

\* the methods whose own probe handed back a number
Answered == {m \in TestMethod : m_args[m].k = "float"}
AnsweredBelow(v) == {m \in Answered : RLess(m_args[m].v, v)}
AnsweredUpTo(v) == {m \in Answered : ~RLess(v, m_args[m].v)}

\* C7: with n >= 1 answering methods the attempt latency is the element at
\* 0-based index floor(n/2) of the answers sorted ascending: it is one of the
\* answers, at most floor(n/2) answers are below it and more than floor(n/2)
\* answers are not above it
C7_MedianIsMiddleElement ==
    (Called /\ Answered # {}) =>
        LET n == Cardinality(Answered)
            v == m_ret[1]
        IN /\ \E m \in Answered : m_args[m].v = v
           /\ Cardinality(AnsweredBelow(v)) <= n \div 2
           /\ Cardinality(AnsweredUpTo(v)) > n \div 2

\* the three results 30, 10, 20 give 20
C7_Witness ==
    /\ Called
    /\ m_args[DNS_QUERY] = Float(Rat(30))
    /\ m_args[SOCKET_CONNECT] = Float(Rat(10))
    /\ m_args[PING] = Float(Rat(20))
    /\ m_ret[1] = Rat(20)

\* C8 as stated: with exactly two answering methods the attempt latency is
\* the smaller of the two answers
C8_TwoAnswersGiveSmaller ==
    (Called /\ Cardinality(Answered) = 2) =>
        \A m \in Answered : ~RLess(m_args[m].v, m_ret[1])

\* C8 amended: with exactly two answering methods the attempt latency is the
\* larger of the two answers (index floor(2/2) = 1 of the sorted pair)
C8_TwoAnswersGiveLarger ==
    (Called /\ Cardinality(Answered) = 2) =>
        /\ \E m \in Answered : m_args[m].v = m_ret[1]
        /\ \A m \in Answered : ~RLess(m_ret[1], m_args[m].v)

C8_Witness ==
    /\ Called
    /\ m_args[DNS_QUERY] = None
    /\ m_args[SOCKET_CONNECT] = Float(Rat(10))
    /\ m_args[PING] = Float(Rat(30))
    /\ m_ret[1] = Rat(30)

\* C9: the returned methods are exactly the methods whose own probe handed
\* back a number, the returned latency is infinite exactly when there is
\* none, and with no method enabled the call returns (inf, {})
C9_MethodsAreTheAnswering ==
    Called =>
        /\ m_ret[2] = Answered
        /\ IsInf(m_ret[1]) <=> (Answered = {})
        /\ (~config.enable_dns_query /\ ~config.enable_socket
            /\ ~config.enable_ping) => m_ret = <<Inf, {}>>

\* two methods answer, one fails: both are returned, not only the median's
C9_Witness ==
    /\ Called
    /\ m_args[DNS_QUERY] = Float(Rat(10))
    /\ m_args[SOCKET_CONNECT] = Raised
    /\ m_args[PING] = Float(Rat(20))
    /\ m_ret = <<Rat(20), {DNS_QUERY, PING}>>

----------------------------------------------------------------------------
(* Claims about a scan (Spec) *)

\* workers inside "async with semaphore": holding a slot, probing or pausing
\* (the record is stored in the same run that leaves the section)
InSection == {w \in Workers : wk[w].pc \in {"granted", "probing", "pausing"}}

\* C1: for every server list and every max_workers K >= 1, at most K workers
\* are inside the semaphore-guarded section at the same time
C1_AtMostKInSection ==
    Cardinality(InSection) <= config.max_workers

\* more servers than slots: the section is full and a worker is kept waiting
C1_Witness ==
    /\ config.max_workers < Len(dns_servers)
    /\ Cardinality(InSection) = config.max_workers
    /\ \E w \in Workers : wk[w].pc = "waiting"
    /\ \E w \in Workers : wk[w].pc = "probing"

\* C2 as stated, as a property of finite runs: the scan is never stuck, some
\* task can always run until _scan_all_servers has returned
C2_ScanNeverStuck ==
    mpc = "returned" \/ ENABLED Next

\* the records the reporter read in its last snapshot
SnapshotRecords == Len(snapshot.rows) + snapshot.remaining

\* C3 as stated: in every snapshot the reporter reads under the lock,
\* scanned equals the number of records in results
C3_SnapshotScannedEqualsRecords ==
    snapshot.taken => snapshot.scanned = SnapshotRecords

\* the step changes one of the three counters
CountersChange == stats' # stats

\* the workers that store their record in the step
Finishing == {w \in Workers : wk[w].pc # "done" /\ wk'[w].pc = "done"}

RecordsOf(res, w) == {i \in 1..Len(res) : res[i].server = dns_servers[w]}

\* C5: a worker whose P >= 1 calls of _measure_server_latency all raised
\* stores, in the one step that ends it, exactly one record for its address,
\* with status "Failed - 0/P" and infinite avg_latency, adds one to failed and
\* one to scanned and leaves successful alone; no other step of that worker
\* touches results or the counters
C5_AllRaisedStoredAsFailed ==
    [][/\ \A w \in Finishing :
            (wk'[w].all_raised /\ config.ping_count >= 1) =>
                /\ Cardinality(RecordsOf(results', w)) = 1
                /\ LET rec == Lookup(results', dns_servers[w]) IN
                     /\ rec.status = [kind |-> "Failed", names |-> <<>>,
                                      num |-> 0, den |-> config.ping_count]
                     /\ IsInf(rec.avg_latency)
                /\ stats'.failed = stats.failed + 1
                /\ stats'.scanned = stats.scanned + 1
                /\ stats'.successful = stats.successful
       /\ Finishing = {} => (results' = results /\ stats' = stats)
       /\ Cardinality(Finishing) <= 1]_vars

\* two attempts raised, the record is stored as failed
C5_Witness ==
    /\ config.ping_count = 2
    /\ \E w \in Workers :
         /\ wk[w].pc = "done"
         /\ wk[w].all_raised
         /\ wk[w].attempt = 1
         /\ HasKey(results, dns_servers[w])
         /\ Lookup(results, dns_servers[w]).status.kind = "Failed"
         /\ stats.failed >= 1

\* the worker's call of _measure_server_latency ends with attempts left
MoreAttempts(w) ==
    wk[w].pc = "probing" /\ wk[w].attempt < config.ping_count - 1

\* the step in which an exception escapes the coroutine of worker w
Escapes(w) == wk[w].pc # "raised" /\ wk'[w].pc = "raised"

\* C6: an exception inside one attempt only ends that attempt, the worker
\* goes on to the next one and ends after attempt P - 1; an exception that
\* escapes a worker changes no other worker and no shared state; when
\* _scan_all_servers has returned, running is False and every worker that did
\* not raise has stored its record; and while the event loop is free the scan
\* is never stuck short of returning
C6_FailuresIsolated ==
    /\ [](\A w \in Workers :
            (wk[w].pc = "done" /\ config.ping_count >= 1)
                => wk[w].attempt = config.ping_count - 1)
    /\ [](mpc = "returned" =>
            /\ ~running
            /\ \A w \in Workers :
                 /\ wk[w].pc \in {"done", "raised"}
                 /\ wk[w].pc = "done" => HasKey(results, dns_servers[w]))
    /\ [](LoopFree => (mpc = "returned" \/ ENABLED Next))
    /\ [][\A w \in Workers :
            /\ MoreAttempts(w) =>
                 \/ wk'[w] = wk[w]
                 \/ wk'[w].pc = "pausing" /\ wk'[w].attempt = wk[w].attempt
                 \/ wk'[w].pc = "probing" /\ wk'[w].attempt = wk[w].attempt + 1
            /\ Escapes(w) =>
                 /\ \A v \in Workers \ {w} : wk'[v] = wk[v]
                 /\ UNCHANGED <<results, stats, sem_value, sem_waiters,
                                running, mpc, rpc>>]_vars

\* one worker raised, the other had both of its attempts raise and still
\* stored its record, and the scan returned
C6_Witness ==
    /\ mpc = "returned"
    /\ ~running
    /\ config.ping_count = 2
    /\ \E w, v \in Workers :
         /\ wk[w].pc = "raised"
         /\ wk[v].pc = "done"
         /\ wk[v].all_raised
         /\ wk[v].attempt = 1
         /\ HasKey(results, dns_servers[v])

----------------------------------------------------------------------------
(* Claims about the record of one server (SpecWorker) *)

\* avg_latency is infinite exactly when ping_count is 0
InfiniteIffNoSuccess(rec) == IsInf(rec.avg_latency) <=> (rec.ping_count = 0)

\* C10 as stated: in every record, the worker's own while it makes its
\* attempts and the stored one after the final write, avg_latency is infinite
\* if and only if ping_count is 0
C10_InfiniteIffNoSuccess ==
    /\ \A w \in Workers : InfiniteIffNoSuccess(wk[w].result)
    /\ \A i \in 1..Len(results) : InfiniteIffNoSuccess(results[i])

----------------------------------------------------------------------------
(* A sequence of update_latency calls on one record *)

\* the latencies fed: not accepted (inf, 0, negative) and accepted ones
FedLatencies == {Inf, Rat(0), Rat(-10), Rat(10), Rat(20), Rat(30)}

InitRecord ==
    /\ config = MakeConfig([enable_dns_query |-> TRUE, enable_socket |-> TRUE,
                            enable_ping |-> TRUE, HAS_DNSPYTHON |-> TRUE],
                           1, 1, "some")
    /\ net = {None}
    /\ dns_servers = <<>>
    /\ wk = <<>>
    /\ m_args = [m \in TestMethod |-> None]
    /\ InitScanner
    /\ IdleProbe
    /\ IdleIp
    /\ IdleLoad
    /\ IdlePool
    /\ IdleRun

\* the latencies that changed the record, summed up as they were fed
Note(acc, new_latency) ==
    [n |-> acc.n + 1,
     sum |-> RAdd(acc.sum, new_latency),
     lo |-> IF RLess(new_latency, acc.lo) THEN new_latency ELSE acc.lo,
     hi |-> IF RLess(acc.hi, new_latency) THEN new_latency ELSE acc.hi]

UpdateLatency ==
    /\ calls < MaxUpdates
    /\ \E new_latency \in FedLatencies, method \in TestMethod :
         /\ record' = update_latency(record, new_latency, method)
         /\ fed' = new_latency
         /\ accepted' = IF record' # record
                         THEN Note(accepted, new_latency) ELSE accepted
    /\ calls' = calls + 1
    /\ UNCHANGED <<config, net, scanvars, m_args, m_ret, probe_env, probe_ret,
                   ip, ip_ret, loadvars, runvars, poolvars>>

NextRecord == UpdateLatency

\* latencies that FloatBits bits hold exactly, and rejected ones
FloatLatencies == {Inf, Rat(0), Rat(11), Rat(30)}

\* the latencies that changed the record, summed up in floating point as
\* line 914 (total_latency += latency) sums them
NoteFloat(acc, new_latency) ==
    [Note(acc, new_latency) EXCEPT
        !.sum = IF acc.n = 0 THEN new_latency
                ELSE Fl(RAdd(acc.sum, new_latency))]

\* line 929: total_latency / successful_tests in floating point
PlainMeanFloat(acc) == Fl(RDivInt(acc.sum, acc.n))

\* update_latency on floats
UpdateLatencyFloat ==
    /\ calls < MaxUpdates
    /\ \E new_latency \in FloatLatencies, method \in TestMethod :
         /\ record' = update_latency_float(record, new_latency, method)
         /\ fed' = new_latency
         /\ accepted' = IF record' # record
                         THEN NoteFloat(accepted, new_latency) ELSE accepted
    /\ calls' = calls + 1
    /\ UNCHANGED <<config, net, scanvars, m_args, m_ret, probe_env, probe_ret,
                   ip, ip_ret, loadvars, runvars, poolvars>>

NextRecordFloat == UpdateLatencyFloat

SpecRecordFloat == InitRecord /\ [][NextRecordFloat]_vars

SpecRecord == InitRecord /\ [][NextRecord]_vars

\* the call of the step was given a latency that update_latency accepts
Accepted == calls' = calls + 1 /\ ~IsInf(fed') /\ RLess(Rat(0), fed')

\* C11: the k-th accepted latency makes avg_latency the latency itself when
\* k = 1 and (avg_latency * (w - 1) + latency) / w with w = min(k, 10)
\* otherwise, so from the 10th on the old average counts nine tenths;
\* feeding 10, 20, 30 gives 10, 15, 20
C11_CappedWeightedAverage ==
    [][Accepted =>
        LET k == record.ping_count + 1
            w == IF k < 10 THEN k ELSE 10
        IN /\ record'.ping_count = k
           /\ k = 1 => record'.avg_latency = fed'
           /\ k > 1 => record'.avg_latency =
                         RDivInt(RAdd(RMulInt(record.avg_latency, w - 1), fed'), w)
           /\ k >= 10 => RMulInt(record'.avg_latency, 10)
                           = RAdd(RMulInt(record.avg_latency, 9), fed')
           /\ (k = 1 /\ fed' = Rat(10)) => record'.avg_latency = Rat(10)
           /\ (k = 2 /\ record.avg_latency = Rat(10) /\ fed' = Rat(20))
                 => record'.avg_latency = Rat(15)
           /\ (k = 3 /\ record.avg_latency = Rat(15) /\ fed' = Rat(30))
                 => record'.avg_latency = Rat(20)]_vars

\* the eleventh accepted latency, 30 after ten times 10, moves the average
\* by a tenth of the difference
C11_Witness ==
    /\ record.ping_count = 11
    /\ fed = Rat(30)
    /\ record.avg_latency = Rat(12)

----------------------------------------------------------------------------
(* Traced scans of one server with the ping probe: every attempt's outcome *)
(* is kept in the worker's hist                                            *)

InitAttempts ==
    /\ config \in {MakeConfig(f, p, 1, "some") :
                      f \in PingOnlyFlags, p \in 0..MaxAttempts}
    /\ net = {None, Raised, Float(Rat(0)), Float(Rat(15)), Float(Rat(20))}
    /\ dns_servers = <<1>>
    /\ m_args = [m \in TestMethod |-> None]
    /\ wk = [w \in 1..Len(dns_servers) |-> TracedWorker(dns_servers[w])]
    /\ InitScanner
    /\ IdleProbe
    /\ IdleIp
    /\ IdleLoad
    /\ IdlePool
    /\ IdleRun

SpecAttempts == InitAttempts /\ [][NextWorker]_vars

\* an attempt that produced a usable latency
Usable(a) == a.k = "returned" /\ ~IsInf(a.latency) /\ a.methods # {}

RECURSIVE UsableCount(_)
UsableCount(h) ==
    IF h = <<>> THEN 0
    ELSE UsableCount(Tail(h)) + (IF Usable(Head(h)) THEN 1 ELSE 0)

RECURSIVE UsableSum(_)
UsableSum(h) ==
    IF h = <<>> THEN Rat(0)
    ELSE IF Usable(Head(h)) THEN RAdd(Head(h).latency, UsableSum(Tail(h)))
    ELSE UsableSum(Tail(h))

\* the record stored under the address of worker w
Stored(w) == Lookup(results, dns_servers[w])

\* C12: a worker that has made its P attempts with s > 0 usable ones stores
\* a record whose avg_latency is the sum of the s usable latencies divided
\* by s
C12_StoredAverageIsPlainMean ==
    \A w \in Workers :
        (wk[w].pc = "done" /\ UsableCount(wk[w].hist) > 0) =>
            /\ Len(wk[w].hist) = config.ping_count
            /\ Stored(w).avg_latency =
                 RDivInt(UsableSum(wk[w].hist), UsableCount(wk[w].hist))

\* attempts 15, failed, 20 give 17.5
C12_Witness ==
    /\ wk[1].pc = "done"
    /\ wk[1].hist = <<ReturnedAttempt(Rat(15), {PING}),
                      ReturnedAttempt(Inf, {}),
                      ReturnedAttempt(Rat(20), {PING})>>
    /\ Stored(1).avg_latency = <<35, 2>>

\* C13 as stated: in every stored record ping_count is the number s of the
\* server's attempts that produced a usable latency, the numerator of its
\* status, with 0 <= s <= P
C13_PingCountIsStatusNumerator ==
    \A w \in Workers :
        wk[w].pc = "done" =>
            LET s == UsableCount(wk[w].hist) IN
            /\ Stored(w).ping_count = s
            /\ Stored(w).status.num = s
            /\ 0 <= s /\ s <= config.ping_count

----------------------------------------------------------------------------
(* Claims about the stored record of a traced one-server scan with any     *)
(* combination of methods (SpecWorker)                                     *)

\* the methods that succeeded in at least one usable attempt
EverSucceeded(h) == UNION {h[i].methods : i \in {j \in 1..Len(h) : Usable(h[j])}}

\* C14 as stated: the successful_methods of the record a worker stores is
\* the union of the methods-succeeded sets of all its usable attempts
C14_StoredMethodsAreTheUnion ==
    \A w \in Workers :
        wk[w].pc = "done" =>
            Stored(w).successful_methods = EverSucceeded(wk[w].hist)

\* the place of a display name in alphabetical order
AlphaRank(n) == CASE n = "DNS" -> 1 [] n = "Ping" -> 2 [] n = "Socket" -> 3

\* names lists the display names of the methods in M, sorted
NamesOf(names, M) ==
    /\ {names[i] : i \in 1..Len(names)} = {display_name(m) : m \in M}
    /\ \A i, j \in 1..Len(names) :
          i < j => AlphaRank(names[i]) < AlphaRank(names[j])

\* C15: every stored record is of one of two kinds.  With s > 0 usable
\* attempts: status "OK (<sorted names of the methods that succeeded>) - s/P",
\* finite avg_latency, and the worker counted the server as successful.  With
\* none: status "Failed - 0/P", infinite avg_latency, counted as failed.  With
\* the three methods disabled the record is of the second kind.
C15_OkOrFailed ==
    \A w \in Workers :
        wk[w].pc = "done" =>
            LET s == UsableCount(wk[w].hist)
                st == Stored(w).status
            IN /\ s > 0 =>
                    /\ st.kind = "OK"
                    /\ NamesOf(st.names, EverSucceeded(wk[w].hist))
                    /\ st.num = s /\ st.den = config.ping_count
                    /\ ~IsInf(Stored(w).avg_latency)
                    /\ stats.successful = 1 /\ stats.failed = 0
               /\ s = 0 =>
                    /\ st = [kind |-> "Failed", names |-> <<>>, num |-> 0,
                             den |-> config.ping_count]
                    /\ IsInf(Stored(w).avg_latency)
                    /\ stats.successful = 0 /\ stats.failed = 1
               /\ (~config.enable_dns_query /\ ~config.enable_socket
                   /\ ~config.enable_ping) => st.kind = "Failed"

\* two attempts, socket and ping succeeded in one, the DNS query in the other
C15_Witness ==
    /\ config.ping_count = 2
    /\ wk[1].pc = "done"
    /\ UsableCount(wk[1].hist) = 2
    /\ wk[1].hist[1].methods = {SOCKET_CONNECT, PING}
    /\ wk[1].hist[2].methods = {DNS_QUERY}
    /\ Stored(1).status =
         [kind |-> "OK", names |-> <<"DNS", "Ping", "Socket">>,
          num |-> 2, den |-> 2]

----------------------------------------------------------------------------
(* One call of one probe method *)

\* measured or printed times, in ms, on both sides of the ceiling
ProbeTimes == {Rat(10), Rat(4999), Rat(5000), Rat(6000)}

\* ping output: no latency field, a field float() rejects, or a value
PingOutputs ==
    {[k |-> "none", v |-> Rat(0)], [k |-> "unparsable", v |-> Rat(0)]}
        \cup {[k |-> "value", v |-> t] : t \in ProbeTimes}

ProbeEnvs ==
    [method : TestMethod, raises : 0..2, elapsed : ProbeTimes,
     returncode : {0, 1}, output : PingOutputs]

InitProbe ==
    /\ config \in {MakeConfig(f, 1, 1, "some") : f \in Flags}
    /\ net = {None}
    /\ dns_servers = <<>>
    /\ wk = <<>>
    /\ m_args = [m \in TestMethod |-> None]
    /\ InitScanner
    /\ probe_env \in ProbeEnvs
    /\ IdleIp
    /\ IdleLoad
    /\ IdlePool
    /\ IdleRun

Probe ==
    /\ probe_ret = <<>>
    /\ probe_ret' = measure_probe(config, probe_env)
    /\ UNCHANGED <<config, net, scanvars, m_args, m_ret, record, fed, calls, accepted,
                   probe_env, ip, ip_ret, loadvars, runvars, poolvars>>

NextProbe == Probe

SpecProbe == InitProbe /\ [][NextProbe]_vars

Probed == probe_ret # <<>>

\* C16 as stated: whichever of the three probes measures or parses a
\* latency of 5000 ms or more returns None, so a probe never returns a
\* latency of 5000 ms or more
C16_CeilingInEveryProbe ==
    (Probed /\ probe_ret.k = "float") => RLess(probe_ret.v, Rat(5000))

\* the probe's method is switched on (and its library is there)
Enabled(m) ==
    \/ m = DNS_QUERY /\ config.enable_dns_query /\ config.HAS_DNSPYTHON
    \/ m = SOCKET_CONNECT /\ config.enable_socket
    \/ m = PING /\ config.enable_ping

\* C17: a probe call never ends with an exception, and every failure (an
\* awaited operation raises, the method is disabled, the resolver library is
\* missing, ping exits non-zero or prints nothing float() accepts) gives None
C17_ProbesNeverRaise ==
    Probed =>
        /\ probe_ret.k # "Exception"
        /\ probe_env.raises # 0 => probe_ret = None
        /\ ~Enabled(probe_env.method) => probe_ret = None
        /\ (probe_env.method = PING /\ probe_env.returncode # 0)
              => probe_ret = None
        /\ (probe_env.method = PING /\ probe_env.output.k # "value")
              => probe_ret = None

\* the socket connection is refused: None
C17_Witness ==
    /\ Probed
    /\ probe_env.method = SOCKET_CONNECT
    /\ Enabled(SOCKET_CONNECT)
    /\ probe_env.raises = 1
    /\ probe_ret = None

----------------------------------------------------------------------------
(* One call of is_valid_ip *)

MaxIpLen == 9

\* digits that make groups on both sides of 255, the dot and the newline
IpChars == {"1", "2", "5", ".", "\n"}

InitIp ==
    /\ config = MakeConfig([enable_dns_query |-> TRUE, enable_socket |-> TRUE,
                            enable_ping |-> TRUE, HAS_DNSPYTHON |-> TRUE],
                           1, 1, "some")
    /\ net = {None}
    /\ dns_servers = <<>>
    /\ wk = <<>>
    /\ m_args = [m \in TestMethod |-> None]
    /\ InitScanner
    /\ IdleProbe
    /\ IdleIp
    /\ IdleLoad
    /\ IdlePool
    /\ IdleRun

\* the caller's string grows by one character
GrowIp ==
    /\ ip_ret = <<>>
    /\ Len(ip) < MaxIpLen
    /\ \E c \in IpChars : ip' = Append(ip, c)
    /\ UNCHANGED <<config, net, scanvars, m_args, m_ret, record, fed, calls, accepted,
                   probe_env, probe_ret, ip_ret, loadvars, runvars, poolvars>>

ValidateIp ==
    /\ ip_ret = <<>>
    /\ ip_ret' = <<is_valid_ip(ip)>>
    /\ UNCHANGED <<config, net, scanvars, m_args, m_ret, record, fed, calls, accepted,
                   probe_env, probe_ret, ip, loadvars, runvars, poolvars>>

NextIp == GrowIp \/ ValidateIp

SpecIp == InitIp /\ [][NextIp]_vars

\* the positions of the dots of s
DotsOf(s) == {i \in 1..Len(s) : s[i] = "."}

DigitValue(c) ==
    CASE c = "0" -> 0 [] c = "1" -> 1 [] c = "2" -> 2 [] c = "3" -> 3
      [] c = "4" -> 4 [] c = "5" -> 5 [] c = "6" -> 6 [] c = "7" -> 7
      [] c = "8" -> 8 [] c = "9" -> 9

RECURSIVE DecimalValue(_)
DecimalValue(g) ==
    IF g = <<>> THEN 0
    ELSE 10 * DecimalValue(SubSeq(g, 1, Len(g) - 1)) + DigitValue(g[Len(g)])

\* one to three decimal digits that read as a number from 0 to 255
IsOctet(g) ==
    /\ Len(g) >= 1 /\ Len(g) <= 3
    /\ \A i \in 1..Len(g) : g[i] \in Digits
    /\ DecimalValue(g) <= 255

\* the pieces of s between the positions in cuts (and the two ends)
PiecesOf(s, cuts) ==
    {SubSeq(s, a + 1, b - 1) :
        <<a, b>> \in {p \in ({0} \cup cuts) \X (cuts \cup {Len(s) + 1}) :
                        /\ p[1] < p[2]
                        /\ \A c \in cuts : ~(p[1] < c /\ c < p[2])}}

\* four groups separated by three dots, each a number from 0 to 255, and
\* nothing else
IsDottedQuad(s) ==
    /\ Cardinality(DotsOf(s)) = 3
    /\ \A g \in PiecesOf(s, DotsOf(s)) : IsOctet(g)

\* C20 as stated: is_valid_ip accepts exactly the dotted quads
C20_AcceptsExactlyDottedQuads ==
    ip_ret # <<>> => (ip_ret[1] <=> IsDottedQuad(ip))

----------------------------------------------------------------------------
(* One call of load_dns_servers on a readable file *)

MaxLines == 3

\* lines of a server file: blank, comment, provider header, two addresses
\* and a line that is no address
FileLines ==
    {<<"\n">>,
     <<"/", "/", "x", "\n">>,
     <<"#", " ", "a", "\n">>,
     <<"2", ".", "2", ".", "2", ".", "2", "\n">>,
     <<" ", "5", ".", "5", ".", "5", ".", "5", "\n">>,
     <<"2", ".", "2", ".", "2", "\n">>}

InitLoad ==
    /\ config = MakeConfig([enable_dns_query |-> TRUE, enable_socket |-> TRUE,
                            enable_ping |-> TRUE, HAS_DNSPYTHON |-> TRUE],
                           1, 1, "some")
    /\ net = {None}
    /\ dns_servers = <<>>
    /\ wk = <<>>
    /\ m_args = [m \in TestMethod |-> None]
    /\ InitScanner
    /\ IdleProbe
    /\ IdleIp
    /\ \E n \in 0..MaxLines : dns_file \in [1..n -> FileLines]
    /\ max_servers \in -1..MaxLines
    /\ load = NoLoad
    /\ providers = <<>>
    /\ IdleRun
    /\ IdlePool

\* lines 689-709: the file is read
LoadStart ==
    /\ load.pc = "idle"
    /\ load' = [load EXCEPT !.pc = "reading", !.pos = 1]
    /\ UNCHANGED <<config, net, scanvars, m_args, m_ret, record, fed, calls, accepted,
                   probe_env, probe_ret, ip, ip_ret, dns_file, max_servers,
                   providers, runvars, poolvars>>

\* lines 709-720: one line of the file
LoadLine ==
    /\ load.pc = "reading"
    /\ load.pos <= Len(dns_file)
    /\ LET done == load_line(load, providers, strip(dns_file[load.pos]),
                             max_servers)
       IN /\ load' = [done[1] EXCEPT !.pos = @ + 1]
          /\ providers' = done[2]
    /\ UNCHANGED <<config, net, scanvars, m_args, m_ret, record, fed, calls, accepted,
                   probe_env, probe_ret, ip, ip_ret, dns_file, max_servers,
                   runvars, poolvars>>

\* lines 722-723: after the last line or the break, servers is returned
LoadReturn ==
    /\ \/ load.pc = "break"
       \/ load.pc = "reading" /\ load.pos > Len(dns_file)
    /\ load' = [load EXCEPT !.pc = "returned"]
    /\ UNCHANGED <<config, net, scanvars, m_args, m_ret, record, fed, calls, accepted,
                   probe_env, probe_ret, ip, ip_ret, dns_file, max_servers,
                   providers, runvars, poolvars>>

NextLoad == LoadStart \/ LoadLine \/ LoadReturn

SpecLoad == InitLoad /\ [][NextLoad]_vars

Loaded == load.pc = "returned"

\* C18 as stated: the list load_dns_servers returns, from which the workers
\* are made, holds each address at most once
C18_LoadedAddressesDistinct ==
    Loaded =>
        \A i, j \in 1..Len(load.servers) :
            load.servers[i] = load.servers[j] => i = j

\* C19 as stated: load_dns_servers returns at most max_servers addresses,
\* for every value of max_servers
C19_AtMostMaxServers ==
    Loaded => Len(load.servers) <= max_servers

----------------------------------------------------------------------------
(* Claims about the end of _scan_all_servers *)

ReporterEnded == rpc \in {"cancelled", "done", "raised"}

\* C21: in a scan that is not interrupted, running is set to False only
\* when every worker has finished, and _scan_all_servers has returned only
\* when the reporter task has ended and running is False
C21_OrderlyEnd ==
    /\ [](mpc = "returned" => ReporterEnded /\ ~running)
    /\ [][(running /\ ~running') =>
            \A w \in Workers : wk[w].pc \in {"done", "raised"}]_vars

\* a scan of two servers has returned, one worker returned and one raised
C21_Witness ==
    /\ mpc = "returned"
    /\ \E w \in Workers : wk[w].pc = "done"
    /\ \E w \in Workers : wk[w].pc = "raised"
    /\ rpc = "cancelled"

----------------------------------------------------------------------------
(* main() and DNSLatencyScanner.run().  asyncio.run turns the first Ctrl+C  *)
(* into a cancellation of the main task; a second Ctrl+C is not modelled.   *)

\* mutant: the DNS method counts as enabled without the resolver library
MainConfigIgnoresLibrary(a, p, k, u) ==
    MakeConfig([enable_dns_query |-> ~a.no_dns,
                enable_socket |-> ~a.no_socket,
                enable_ping |-> ~a.no_ping,
                HAS_DNSPYTHON |-> a.HAS_DNSPYTHON], p, k, u)

\* lines 1643-1653
MainConfig(a, p, k, u) ==
    MakeConfig([enable_dns_query |-> ~a.no_dns /\ a.HAS_DNSPYTHON,
                enable_socket |-> ~a.no_socket,
                enable_ping |-> ~a.no_ping,
                HAS_DNSPYTHON |-> a.HAS_DNSPYTHON], p, k, u)

\* line 1656: any([enable_dns_query, enable_socket, enable_ping])
AnyMethod(cfg) ==
    cfg.enable_dns_query \/ cfg.enable_socket \/ cfg.enable_ping

\* mutant: run() has no finally block
FinallyRunningKept(r) == r

\* lines 1557-1558: finally: self.running = False
FinallyRunning(r) == FALSE

\* lines 1656-1670 and run() up to its first suspension inside
\* load_dns_servers (line 681)
MainValidate ==
    /\ mainpc = "main"
    /\ IF ~AnyMethod(config)
       THEN /\ printed' = Append(printed, "NoMethodEnabled")
            /\ exit_code' = 1
            /\ mainpc' = "exited"
            /\ UNCHANGED scanner_made
       ELSE /\ scanner_made' = TRUE
            /\ mainpc' = "loading"
            /\ UNCHANGED <<printed, exit_code>>
    /\ UNCHANGED <<config, net, scanvars, m_args, m_ret, callvars, workers, elev, fin,
                   args,
                   interrupted, cancelling>>

\* load_dns_servers raises ConfigurationError (lines 684-685, 725-728);
\* run() prints it (1550-1551), runs its finally block and returns;
\* asyncio.run and main return
LoadFails ==
    /\ mainpc = "loading"
    /\ args.file # "ok"
    /\ printed' = Append(printed, "ConfigurationError")
    /\ running' = FinallyRunning(running)
    /\ exit_code' = 0
    /\ mainpc' = "exited"
    /\ UNCHANGED <<config, net, dns_servers, results, stats, sem_value,
                   sem_waiters, wk, mpc, rpc, must_cancel, snapshot,
                   m_args, m_ret, callvars, workers, elev, fin,
                   args, scanner_made, interrupted,
                   cancelling>>

\* lines 1521-1543: load_dns_servers returns a list, run() sleeps for 1 s
LoadOk ==
    /\ mainpc = "loading"
    /\ args.file = "ok"
    /\ \E servers \in ServerLists :
         /\ dns_servers' = servers
         /\ wk' = [w \in 1..Len(servers) |-> NewWorker(servers[w])]
    /\ mpc' = "start"
    /\ mainpc' = "run"
    /\ UNCHANGED <<config, net, running, results, stats, sem_value,
                   sem_waiters, rpc, must_cancel, snapshot,
                   m_args, m_ret, callvars, workers, elev, fin,
                   args, scanner_made, exit_code,
                   interrupted, cancelling, printed>>

\* Ctrl+C while run() waits for the file or in sleep(1): CancelledError passes
\* every except clause of run() (it is no Exception), the finally block runs
\* (1557-1558), asyncio.run raises KeyboardInterrupt and main prints its
\* goodbye (1672-1673); _scan_all_servers is never called
InterruptBeforeScan ==
    /\ \/ mainpc = "loading"
       \/ mainpc = "run" /\ mpc = "start"
    /\ ~interrupted
    /\ interrupted' = TRUE
    /\ running' = FinallyRunning(running)
    /\ printed' = Append(printed, "Goodbye")
    /\ exit_code' = 0
    /\ mainpc' = "exited"
    /\ mpc' = "idle"
    /\ UNCHANGED <<config, net, dns_servers, results, stats, sem_value,
                   sem_waiters, wk, rpc, must_cancel, snapshot,
                   m_args, m_ret, callvars, workers, elev, fin,
                   args, scanner_made, cancelling>>

\* Ctrl+C while _scan_all_servers waits in gather (line 1095) or in
\* sleep(1.5) (line 1098): gather cancels every worker that has not ended;
\* CancelledError is no Exception, so a cancelled worker leaves "async with
\* semaphore" without reaching lines 927-940; the main task goes on in the
\* finally block once they have all ended
InterruptScan ==
    /\ LoopFree
    /\ mainpc = "run"
    /\ mpc \in {"gathering", "final_sleep"}
    /\ ~interrupted
    /\ interrupted' = TRUE
    /\ cancelling' = TRUE
    /\ wk' = [w \in Workers |->
                IF wk[w].pc \in {"done", "raised"} THEN wk[w]
                ELSE [wk[w] EXCEPT !.pc = "cancelled"]]
    /\ sem_value' = config.max_workers
    /\ sem_waiters' = <<>>
    /\ mpc' = "cancelled"
    /\ UNCHANGED <<config, net, dns_servers, running, results, stats, rpc,
                   must_cancel, snapshot, m_args, m_ret, callvars, workers, elev, fin,
                   args,
                   mainpc, scanner_made, exit_code, printed>>

\* lines 1100-1105 with CancelledError propagating
CancelledFinally ==
    /\ LoopFree
    /\ ReporterFirst
    /\ mpc = "cancelled"
    /\ running' = FALSE
    /\ must_cancel' = (rpc \in {"created", "sleeping"})
    /\ mpc' = IF rpc \in {"created", "sleeping"} THEN "joining" ELSE "returned"
    /\ UNCHANGED <<config, net, dns_servers, results, stats, sem_value,
                   sem_waiters, wk, rpc, snapshot, m_args, m_ret, unitvars>>

\* Ctrl+C while _scan_all_servers waits for the reporter (line 1105): the
\* CancelledError arrives at "await display_task" and line 1106 catches it
InterruptJoin ==
    /\ LoopFree
    /\ mainpc = "run"
    /\ mpc = "joining"
    /\ ~interrupted
    /\ interrupted' = TRUE
    /\ UNCHANGED <<config, net, scanvars, m_args, m_ret, callvars, workers, elev, fin,
                   args,
                   mainpc, scanner_made, exit_code, cancelling, printed>>

\* lines 1079-1080: clearing the screen or print raises in the reporter
\* (for instance OSError on a closed terminal); the task ends with it
ReporterRaise ==
    /\ LoopFree
    /\ rpc \in {"created", "sleeping"}
    /\ ~must_cancel
    /\ running
    /\ rpc' = "raised"
    /\ UNCHANGED <<config, net, dns_servers, running, results, stats, sem_value,
                   sem_waiters, wk, mpc, must_cancel, snapshot, m_args, m_ret,
                   unitvars>>

\* what run() and main print once _scan_all_servers is over: "await
\* display_task" re-raises what the reporter raised (except Exception, lines
\* 1554-1556); a CancelledError leaves run() and asyncio.run raises
\* KeyboardInterrupt (1672-1673); otherwise line 1548 prints the summary
LastMessage ==
    IF rpc = "raised" THEN "UnexpectedError"
    ELSE IF cancelling THEN "Goodbye"
    ELSE "FinalResults"

\* lines 1545-1558 and 1670-1676 after _scan_all_servers is over
RunReturn ==
    /\ LoopFree
    /\ mainpc = "run"
    /\ mpc = "returned"
    /\ printed' = Append(printed, LastMessage)
    /\ running' = FinallyRunning(running)
    /\ exit_code' = 0
    /\ mainpc' = "exited"
    /\ UNCHANGED <<config, net, dns_servers, results, stats, sem_value,
                   sem_waiters, wk, mpc, rpc, must_cancel, snapshot,
                   m_args, m_ret, callvars, workers, elev, fin,
                   args, scanner_made, interrupted,
                   cancelling>>

\* the states of the server file
FileStates == {"ok", "missing", "unreadable"}

CommandLines ==
    [no_dns : BOOLEAN, no_socket : BOOLEAN, no_ping : BOOLEAN,
     HAS_DNSPYTHON : BOOLEAN, file : FileStates]

\* command lines that leave at most the ping probe enabled
PingOnlyCommandLines ==
    {a \in CommandLines : a.no_dns /\ a.no_socket /\ a.HAS_DNSPYTHON}

\* main() has parsed the command line and built the ScanConfig (line 1653)
InitMainOn(lines, pings) ==
    /\ args \in lines
    /\ \E p \in pings, k \in 1..MaxWorkers, u \in Intervals :
         config = MainConfig(args, p, k, u)
    /\ net = {None, Raised, Float(Rat(10))}
    /\ dns_servers = <<>>
    /\ wk = <<>>
    /\ m_args = [m \in TestMethod |-> None]
    /\ InitFields
    /\ mpc = "idle"
    /\ IdleProbe
    /\ IdleIp
    /\ IdleLoad
    /\ IdlePool
    /\ mainpc = "main"
    /\ scanner_made = FALSE
    /\ exit_code = NotExited
    /\ interrupted = FALSE
    /\ cancelling = FALSE
    /\ printed = <<>>
    /\ workers = NoWorkers
    /\ elev = NoElev
    /\ fin = NoFinal

\* whole runs of the program with at most the ping probe enabled and
\* MaxPings attempts per server
InitRun == InitMainOn(PingOnlyCommandLines, {MaxPings})

NextRun ==
    \/ MainValidate
    \/ LoadFails
    \/ LoadOk
    \/ InterruptBeforeScan
    \/ InterruptScan
    \/ CancelledFinally
    \/ InterruptJoin
    \/ ReporterRaise
    \/ RunReturn
    \/ Next

SpecRun == InitRun /\ [][NextRun]_vars

\* main() and run() on every command line, up to the call of
\* _scan_all_servers
InitMain == InitMainOn(CommandLines, 0..MaxPings)

NextMain ==
    \/ MainValidate
    \/ LoadFails
    \/ LoadOk
    \/ InterruptBeforeScan

SpecMain == InitMain /\ [][NextMain]_vars

----------------------------------------------------------------------------
(* Claims about main() and run() *)

Exited == mainpc = "exited"

\* the number of times msg has been printed
Count(msg) == Cardinality({i \in 1..Len(printed) : printed[i] = msg})

\* C22 as stated: after a configuration error no worker was started, the
\* results map is empty, the error was reported once and the exit code is
\* not zero
C22_ConfigurationErrorIsFatal ==
    (Exited /\ args.file # "ok" /\ ~interrupted /\ scanner_made) =>
        /\ wk = <<>>
        /\ results = <<>>
        /\ Count("ConfigurationError") = 1
        /\ exit_code # 0

\* C23 as stated: after an interruption of a scan in flight running is False,
\* the reporter task has ended and the final summary has been printed
C23_InterruptPrintsSummary ==
    (Exited /\ interrupted /\ mpc \notin {"idle", "start"} /\ rpc # "raised") =>
        /\ ~running
        /\ ReporterEnded
        /\ Count("FinalResults") = 1

\* every probe method ends up disabled: --no-socket, --no-ping and either
\* --no-dns or no resolver library
AllDisabled ==
    /\ args.no_socket
    /\ args.no_ping
    /\ args.no_dns \/ ~args.HAS_DNSPYTHON

\* C24: when all three probe methods end up disabled, main exits with code 1
\* and no scanner is ever created and no scan started
C24_NoMethodExitsOne ==
    AllDisabled =>
        /\ ~scanner_made
        /\ mainpc \in {"main", "exited"}
        /\ mpc = "idle"
        /\ Exited => exit_code = 1 /\ printed = <<"NoMethodEnabled">>

\* main has exited with 1 although --no-dns was not given: the resolver
\* library is missing
C24_Witness ==
    /\ Exited
    /\ exit_code = 1
    /\ ~args.no_dns
    /\ ~scanner_made

----------------------------------------------------------------------------
(* _get_dns_resolver: tasks that borrow and give back resolver handles.     *)
(* Handles are interchangeable, so the pool is its length.                  *)

POOL_SIZE == 10

\* tasks that can be inside "async with self._get_dns_resolver()" at once
MaxBorrowers == 12

\* mutant: a handle is always stored when it comes back
PoolHasRoomAlways(n) == TRUE

\* line 753: len(self._resolver_pool) < POOL_SIZE
PoolHasRoom(n) == n < POOL_SIZE

InitPool ==
    /\ config \in {MakeConfig(f, 1, 1, "some") :
                     f \in {g \in Flags : g.enable_dns_query}}
    /\ net = {None}
    /\ dns_servers = <<>>
    /\ wk = <<>>
    /\ m_args = [m \in TestMethod |-> None]
    /\ InitScanner
    /\ IdleProbe
    /\ IdleIp
    /\ IdleLoad
    /\ IdleRun
    /\ resolver_pool = 0
    /\ borrow = NoBorrow
    /\ handle = NoHandle

\* mutant: the leftmost handle is handed out but stays in the deque
peekleft(n, pos) == [len |-> n, pos |-> pos]

\* line 744: popleft() on a deque of n handles, the followed one at pos
popleft(n, pos) == [len |-> n - 1, pos |-> IF pos = 0 THEN 0 ELSE pos - 1]

\* line 766 by the probe for server s that received handle h
Use(h, s) ==
    [h EXCEPT !.users = @ + 1,
              !.nameservers = s,
              !.query_of = IF h.users = 0 THEN s ELSE @]

QueryEnds == {"answered", "failed", "cancelled"}

\* lines 737-750 and 766: entering the context manager never suspends, and
\* the probe sets nameservers before its first await
Borrow ==
    /\ borrow.open < MaxBorrowers
    /\ \E s \in 1..MaxServers, mine \in BOOLEAN :
        IF ~config.HAS_DNSPYTHON
        THEN /\ ~mine
             /\ borrow' = [open |-> borrow.open + 1, last |-> "yielded None"]
             /\ UNCHANGED <<resolver_pool, handle>>
        ELSE IF resolver_pool > 0
        THEN LET p == popleft(resolver_pool, handle.pos) IN
             /\ mine = (handle.pos = 1)
             /\ resolver_pool' = p.len
             /\ handle' = IF mine
                          THEN Use([handle EXCEPT !.pos = p.pos], s)
                          ELSE [handle EXCEPT !.pos = p.pos]
             /\ borrow' = [open |-> borrow.open + 1, last |-> "popped"]
        ELSE /\ mine => ~handle.made
             /\ handle' = IF mine
                          THEN Use([handle EXCEPT !.made = TRUE], s)
                          ELSE handle
             /\ borrow' = [open |-> borrow.open + 1, last |-> "created"]
             /\ UNCHANGED resolver_pool
    /\ UNCHANGED <<config, net, scanvars, m_args, m_ret, record, fed, calls, accepted,
                   probe_env, probe_ret, ip, ip_ret, loadvars, runvars>>

\* lines 739 and 752-754: leaving the context manager, however the query
\* ended (the finally clause)
GiveBack ==
    /\ borrow.open > 0
    /\ \E mine \in BOOLEAN, end \in QueryEnds :
        /\ mine => handle.users > 0
        /\ ~mine => borrow.open > handle.users /\ end = "answered"
        /\ IF ~config.HAS_DNSPYTHON
           THEN /\ borrow' = [open |-> borrow.open - 1, last |-> "returned None"]
                /\ UNCHANGED <<resolver_pool, handle>>
           ELSE IF PoolHasRoom(resolver_pool)
           THEN /\ resolver_pool' = resolver_pool + 1
                /\ handle' = IF mine
                             THEN [handle EXCEPT !.users = @ - 1,
                                                 !.pos = resolver_pool + 1,
                                                 !.ended = end]
                             ELSE handle
                /\ borrow' = [open |-> borrow.open - 1, last |-> "stored"]
           ELSE /\ handle' = IF mine
                             THEN [handle EXCEPT !.users = @ - 1,
                                                 !.dropped = TRUE,
                                                 !.ended = end]
                             ELSE handle
                /\ borrow' = [open |-> borrow.open - 1, last |-> "dropped"]
                /\ UNCHANGED resolver_pool
    /\ UNCHANGED <<config, net, scanvars, m_args, m_ret, record, fed, calls, accepted,
                   probe_env, probe_ret, ip, ip_ret, loadvars, runvars>>

NextPool == Borrow \/ GiveBack

SpecPool == InitPool /\ [][NextPool]_vars

\* C25: the pool never holds more than POOL_SIZE handles; a borrow is
\* possible in every state with a task left to borrow, and with an empty
\* pool it creates a handle; a handle that comes back to a full pool is
\* dropped and the pool keeps its POOL_SIZE handles
C25_PoolBoundedNeverBlocks ==
    /\ [](resolver_pool <= POOL_SIZE)
    /\ [](borrow.open < MaxBorrowers => ENABLED Borrow)
    /\ [][(config.HAS_DNSPYTHON /\ borrow'.open = borrow.open + 1
             /\ resolver_pool = 0)
            => borrow'.last = "created" /\ resolver_pool' = 0]_vars
    /\ [][(config.HAS_DNSPYTHON /\ borrow'.open = borrow.open - 1
             /\ resolver_pool = POOL_SIZE)
            => borrow'.last = "dropped" /\ resolver_pool' = POOL_SIZE]_vars

\* a handle has just been dropped at a full pool
C25_Witness ==
    /\ resolver_pool = POOL_SIZE
    /\ borrow.last = "dropped"

----------------------------------------------------------------------------
(* Claims about update_latency on invalid input *)

\* the call just made had an infinite, zero or negative latency
Rejected == calls' = calls + 1 /\ (IsInf(fed') \/ ~RLess(Rat(0), fed'))

\* C26: update_latency with an infinite, zero or negative latency leaves
\* ping_count, avg_latency, latency and successful_methods as they were
C26_InvalidLatencyChangesNothing ==
    [][Rejected =>
        /\ record'.ping_count = record.ping_count
        /\ record'.avg_latency = record.avg_latency
        /\ record'.latency = record.latency
        /\ record'.successful_methods = record.successful_methods]_vars

\* a negative latency was fed to a record that held two measurements
C26_Witness ==
    /\ calls = 3
    /\ fed = Rat(-10)
    /\ record.ping_count = 2
    /\ record.avg_latency = Rat(15)

----------------------------------------------------------------------------
(* Claims about what the reporter can see of a worker in progress *)

\* C27 as stated: from a worker's first successful attempt on, the record of
\* its server is in the results map
C27_RecordVisibleFromFirstSuccess ==
    \A w \in Workers :
        wk[w].result.ping_count >= 1 => HasKey(results, wk[w].server)

\* C28 as stated: the reporter task ends only by leaving its loop after it
\* has seen running = False
C28_ReporterLeavesByFlag ==
    rpc \in {"cancelled", "done"} => rpc = "done" /\ ~running

\* how many times an assignment "self.running = False" has been executed:
\* line 1101 once _scan_all_servers is in its finally block, line 1558 once
\* run() has returned
FalseAssignments ==
    (IF mpc \in {"joining", "returned"} THEN 1 ELSE 0)
    + (IF Exited /\ scanner_made THEN 1 ELSE 0)

\* C29 as stated: running is True from construction, never becomes True
\* again, is False whenever run() has returned, and has been set to False
\* exactly once by then
C29_SetFalseExactlyOnce ==
    /\ mainpc \in {"main", "loading"} => running
    /\ (Exited /\ scanner_made) => ~running /\ FalseAssignments = 1

\* C29, amended: running is True from construction, changes its value once,
\* from True to False, and is False whenever run() has returned; the
\* assignment itself is executed once or twice
C29_FalseOnceAndForAll ==
    /\ [](mainpc \in {"main", "loading"} => running)
    /\ []((Exited /\ scanner_made) => ~running /\ FalseAssignments \in {1, 2})
    /\ [][running' => running]_vars

\* run() has returned after a completed scan: both assignments were executed
C29_Witness ==
    /\ Exited
    /\ printed = <<"FinalResults">>
    /\ ~running
    /\ FalseAssignments = 2

----------------------------------------------------------------------------
(* Scans whose servers answer the ping probe with different latencies;     *)
(* _measure_ping_latency returns whatever the ping program printed (lines  *)
(* 830, 839, 848), also a latency above the sort key of a failed record    *)

SortLatencies ==
    {None, Float(Rat(10)), Float(Rat(20)), Float(Rat(FAILED_SORT_KEY + 1))}

InitSort ==
    /\ config \in {c \in Configs(PingOnlyFlags) :
                     c.enable_ping /\ c.update_interval = "some"
                     /\ c.ping_count >= 1}
    /\ net = SortLatencies
    /\ dns_servers \in ServerLists
    /\ m_args = [m \in TestMethod |-> None]
    /\ wk = [w \in 1..Len(dns_servers) |-> NewWorker(dns_servers[w])]
    /\ InitScanner
    /\ IdleProbe
    /\ IdleIp
    /\ IdleLoad
    /\ IdlePool
    /\ IdleRun

SpecSort == InitSort /\ [][Next]_vars

\* rows, a sequence of keys of res, is in ascending order of avg_latency with
\* the failed records last and equal averages in the order of the keys in res
RowsInOrder(rows, res) ==
    \A i, j \in 1..Len(rows) :
        i < j =>
            LET a == Lookup(res, rows[i])
                b == Lookup(res, rows[j])
            IN /\ IsInf(a.avg_latency) => IsInf(b.avg_latency)
               /\ (~IsInf(a.avg_latency) /\ ~IsInf(b.avg_latency))
                     => ~RLess(b.avg_latency, a.avg_latency)
               /\ a.avg_latency = b.avg_latency
                     => KeyIndex(res, rows[i]) < KeyIndex(res, rows[j])

\* C30 as stated: the rows of every snapshot are in ascending order of
\* avg_latency, every failed record after every successful one, and records
\* of equal avg_latency in the order in which they were first written
C30_RowsAscendingFailedLast ==
    [][snapshot' # snapshot => RowsInOrder(snapshot'.rows, results')]_vars

-----------------------------------------------------------------------------
(* C31: the progress reporter only reads the shared state.  No step of     *)
(* the reporter (a step that moves the reporter or takes a snapshot,       *)
(* other than the scan creating the reporter task) changes the result      *)
(* store, the counters, the server list or the running flag.               *)
ReporterStep ==
    /\ rpc # "none"
    /\ rpc' # rpc \/ snapshot' # snapshot

C31_ReporterOnlyReads ==
    [][ReporterStep => UNCHANGED <<results, stats, dns_servers, running>>]_vars

\* a display was drawn while two records were stored out of display order
C31_Witness ==
    /\ snapshot.taken
    /\ Len(results) = 2
    /\ snapshot.rows = <<results[2].server, results[1].server>>

-----------------------------------------------------------------------------
(* C32: a worker pauses between one attempt and the next whatever the      *)
(* attempt gave: every step that takes a worker to its next attempt is    *)
(* the end of a 20 ms pause (so a worker of P attempts pauses P - 1       *)
(* times).                                                                 *)
NextAttemptBegins(w) ==
    /\ wk[w].pc # "none"
    /\ wk'[w].attempt = wk[w].attempt + 1

C32_PauseBetweenAttempts ==
    [][\A w \in DOMAIN wk : NextAttemptBegins(w) => wk[w].pc = "pausing"]_vars

-----------------------------------------------------------------------------
(* C33: a worker has called _measure_server_latency exactly ping_count     *)
(* times when it stores its record, whatever the calls gave (a latency,    *)
(* no result or an exception), and the calls are numbered 0 .. P-1 in      *)
(* order: none is skipped, none is made twice.                             *)
Calls(w) == Len(wk[w].hist)

C33_ExactlyPingCountCalls ==
    \A w \in DOMAIN wk :
        /\ wk[w].traced => Calls(w) <= config.ping_count
        /\ (wk[w].traced /\ wk[w].pc \in {"finalize", "done"})
              => Calls(w) = config.ping_count
        /\ (wk[w].traced /\ wk[w].pc \in {"probing", "pausing"})
              => Calls(w) \in {wk[w].attempt, wk[w].attempt + 1}

\* a worker stored its record after a success, a failure and an exception
C33_Witness ==
    \E w \in DOMAIN wk :
        /\ wk[w].traced /\ wk[w].pc = "done"
        /\ Calls(w) = MaxAttempts
        /\ \E i, j, k \in 1..MaxAttempts :
              /\ wk[w].hist[i].k = "raised"
              /\ wk[w].hist[j].k = "returned" /\ IsInf(wk[w].hist[j].latency)
              /\ wk[w].hist[k].k = "returned" /\ ~IsInf(wk[w].hist[k].latency)

-----------------------------------------------------------------------------
(* C34: a resolver handle is used by at most one probe at a time: while a  *)
(* probe holds it, it is not in the pool for another probe to take, and   *)
(* its nameservers setting is the holder's server.  When the probe ends,  *)
(* also by a failed or cancelled query, the handle goes back to the right *)
(* end of the pool, unless the pool already holds POOL_SIZE handles: then  *)
(* it is dropped.                                                          *)
ProbeEnds == handle'.users = handle.users - 1

C34_HandleExclusiveReturnedOrDropped ==
    /\ [](handle.users <= 1)
    /\ [](handle.users = 1 =>
            /\ handle.pos = 0
            /\ handle.nameservers = handle.query_of)
    /\ [][ProbeEnds =>
            IF resolver_pool < POOL_SIZE
            THEN handle'.pos = resolver_pool' /\ ~handle'.dropped
            ELSE handle'.pos = 0 /\ handle'.dropped]_vars

\* as stated: the handle is back in the pool whenever its probe has ended
C34_HandleAlwaysReturned ==
    [][ProbeEnds => handle'.pos > 0]_vars

\* a handle that was taken from the pool is back in it after a failed query
\* for the other server
C34_Witness ==
    /\ borrow.last = "stored"
    /\ handle.pos = resolver_pool
    /\ handle.ended = "failed"
    /\ handle.users = 0
    /\ handle.nameservers = 2
    /\ resolver_pool > 1

-----------------------------------------------------------------------------
(* The number of concurrent workers when none is given                     *)

WORKERS_CAP == 32
WORKERS_PER_CPU == 4
MAIN_WORKERS_FLOOR == 8

\* processors of the machine and values of -w looked at
MaxCpu == 9
MaxWorkersArg == 3

\* os.cpu_count() or 1
CpuCountOr1(c) == IF c = 0 THEN 1 ELSE c

\* line 579: the class default of ScanConfig.max_workers
DefaultMaxWorkers(c) == Min(WORKERS_CAP, CpuCountOr1(c) * WORKERS_PER_CPU)

\* lines 1638-1640 and 1648: max_workers of the ScanConfig main() builds
MainMaxWorkers(w, c) ==
    IF w <= 0
    THEN Min(WORKERS_CAP,
             IF CpuCountOr1(c) * WORKERS_PER_CPU > MAIN_WORKERS_FLOOR
             THEN CpuCountOr1(c) * WORKERS_PER_CPU ELSE MAIN_WORKERS_FLOOR)
    ELSE w

InitWorkersArg ==
    /\ config \in {MakeConfig(f, 1, 1, "some") : f \in PingOnlyFlags}
    /\ net = {None}
    /\ dns_servers = <<>>
    /\ wk = <<>>
    /\ m_args = [m \in TestMethod |-> None]
    /\ InitScanner
    /\ IdleProbe
    /\ IdleIp
    /\ IdleLoad
    /\ IdlePool
    /\ args = NoArgs
    /\ mainpc = "idle"
    /\ scanner_made = FALSE
    /\ exit_code = NotExited
    /\ interrupted = FALSE
    /\ cancelling = FALSE
    /\ printed = <<>>
    /\ elev = NoElev
    /\ fin = NoFinal
    /\ \E c \in 0..MaxCpu, w \in -1..MaxWorkersArg :
         workers = [pc |-> "start", cpu_count |-> c, w |-> w, max_workers |-> 0]

\* a program that uses the library: ScanConfig() with no max_workers
DefaultConfig ==
    /\ workers.pc = "start"
    /\ workers' = [workers EXCEPT
                     !.pc = "ScanConfig()",
                     !.max_workers = DefaultMaxWorkers(workers.cpu_count)]
    /\ config' = [config EXCEPT !.max_workers = workers'.max_workers]
    /\ UNCHANGED <<net, scanvars, m_args, m_ret, callvars, elev, fin, args, mainpc,
                   scanner_made, exit_code, interrupted, cancelling, printed>>

\* the command line: main() with args.workers = w (0 when -w is not given)
MainConfigWorkers ==
    /\ workers.pc = "start"
    /\ workers' = [workers EXCEPT
                     !.pc = "main()",
                     !.max_workers = MainMaxWorkers(workers.w, workers.cpu_count)]
    /\ config' = [config EXCEPT !.max_workers = workers'.max_workers]
    /\ UNCHANGED <<net, scanvars, m_args, m_ret, callvars, elev, fin, args, mainpc,
                   scanner_made, exit_code, interrupted, cancelling, printed>>

NextWorkersArg == DefaultConfig \/ MainConfigWorkers

SpecWorkersArg == InitWorkersArg /\ [][NextWorkersArg]_vars

(* C35: with no worker count given the scan uses min(32, 4 x cpuCount)     *)
(* workers, cpuCount taken as 1 when unknown, for a default ScanConfig and *)
(* for the command line without -w or with -w 0.                           *)
NoWorkerCountGiven ==
    \/ workers.pc = "ScanConfig()"
    \/ workers.pc = "main()" /\ workers.w = 0

C35_DefaultWorkers ==
    NoWorkerCountGiven =>
        config.max_workers =
            Min(32, 4 * (IF workers.cpu_count = 0 THEN 1 ELSE workers.cpu_count))

-----------------------------------------------------------------------------
(* PrivilegeManager._validate_arguments (lines 158-217) on command lines   *)
(* of a few tokens; a token is the sequence of its characters              *)

\* lines 180-192; "backtick" stands for the grave accent character
DANGEROUS ==
    {"&", "|", ";", "backtick", "$", ">", "<", "*", "?", "[", "]"}

\* str.lower() on the letters that occur in capitals in Tokens
LowerChar(c) == CASE c = "A" -> "a" [] c = "B" -> "b" [] OTHER -> c
lower(s) == [i \in 1..Len(s) |-> LowerChar(s[i])]

\* lines 178-194: any(dangerous in arg.lower() for dangerous in [...])
HasDangerous(arg) == \E i \in 1..Len(arg) : lower(arg)[i] \in DANGEROUS

\* str.endswith(suffix)
endswith(s, suffix) ==
    /\ Len(s) >= Len(suffix)
    /\ SubSeq(s, Len(s) - Len(suffix) + 1, Len(s)) = suffix

NUMERIC_FLAGS ==
    {<<"-", "t">>, <<"-", "-", "t", "i", "m", "e", "o", "u", "t">>,
     <<"-", "p">>, <<"-", "-", "p", "i", "n", "g", "s">>,
     <<"-", "m">>,
     <<"-", "-", "m", "a", "x", "-", "s", "e", "r", "v", "e", "r", "s">>,
     <<"-", "w">>, <<"-", "-", "w", "o", "r", "k", "e", "r", "s">>}

\* digits with at most one point and at least one digit
IsDecimal(s) ==
    /\ \A i \in 1..Len(s) : s[i] \in Digits \cup {"."}
    /\ \E i \in 1..Len(s) : s[i] \in Digits
    /\ Cardinality({i \in 1..Len(s) : s[i] = "."}) <= 1

Unsigned(s) == IF s # <<>> /\ Head(s) \in {"+", "-"} THEN Tail(s) ELSE s

IsInteger(s) == s # <<>> /\ \A i \in 1..Len(s) : s[i] \in Digits

SPECIAL_FLOATS ==
    {<<"i", "n", "f">>, <<"n", "a", "n">>,
     <<"i", "n", "f", "i", "n", "i", "t", "y">>}

\* float(arg) does not raise ValueError: surrounding white space, a sign,
\* a decimal with an optional exponent, or inf / nan in any case
\* (underscores between digits do not occur in Tokens)
IsFloatText(arg) ==
    LET t == Unsigned(strip(arg))
        es == {i \in 1..Len(t) : t[i] \in {"e", "E"}}
    IN  \/ lower(t) \in SPECIAL_FLOATS
        \/ IsDecimal(t)
        \/ \E i \in es :
              /\ IsDecimal(SubSeq(t, 1, i - 1))
              /\ IsInteger(Unsigned(SubSeq(t, i + 1, Len(t))))

\* lines 196-215 for args[i], here argv[i] (i counted from 1): is the token appended
Whitelisted(argv, i) ==
    \/ startswith(argv[i], <<"-">>)
    \/ endswith(argv[i], <<".", "p", "y">>)
    \/ endswith(argv[i], <<".", "t", "x", "t">>)
    \/ /\ i > 1
       /\ argv[i - 1] \in NUMERIC_FLAGS
       /\ IsFloatText(argv[i])

\* lines 177-215: the token passes the dangerous-pattern test and the
\* whitelist
Kept(argv, i) == ~HasDangerous(argv[i]) /\ Whitelisted(argv, i)

\* tokens of a command line after the script name
MaxArgs == 3

Tokens ==
    {<<"d", "n", "s", "p", "i", "n", "g">>,
     <<"s", ".", "p", "y">>,
     <<"l", ".", "t", "x", "t">>,
     <<"-", "p">>,
     <<"-", "-", "w", "o", "r", "k", "e", "r", "s">>,
     <<"-", "-", "n", "o", "-", "d", "n", "s">>,
     <<"4">>,
     <<"1", ".", "5">>,
     <<"a", "b", "c">>,
     <<"A", "&", "B">>,
     <<"-", "p", ";", "r", "m">>,
     <<"$", "x", ".", "p", "y">>}

\* sys.argv[0]: the installed command, or a script run with python
ScriptNames == {<<"d", "n", "s", "p", "i", "n", "g">>, <<"s", ".", "p", "y">>}

RECURSIVE SeqsUpTo(_, _)
SeqsUpTo(S, n) ==
    IF n = 0 THEN {<<>>}
    ELSE LET shorter == SeqsUpTo(S, n - 1) IN
         shorter \cup {Append(q, x) : q \in shorter, x \in S}

InitElev ==
    /\ config \in {MakeConfig(f, 1, 1, "some") : f \in PingOnlyFlags}
    /\ net = {None}
    /\ dns_servers = <<>>
    /\ wk = <<>>
    /\ m_args = [m \in TestMethod |-> None]
    /\ InitScanner
    /\ IdleProbe
    /\ IdleIp
    /\ IdleLoad
    /\ IdlePool
    /\ args = NoArgs
    /\ mainpc = "idle"
    /\ scanner_made = FALSE
    /\ exit_code = NotExited
    /\ interrupted = FALSE
    /\ cancelling = FALSE
    /\ printed = <<>>
    /\ workers = NoWorkers
    /\ fin = NoFinal
    /\ \E name \in ScriptNames, a \in SeqsUpTo(Tokens, MaxArgs) :
         elev = [pc |-> "loop", args |-> <<name>> \o a, i |-> 1,
                 safe_args |-> <<>>, skip_next |-> FALSE]

\* lines 173-215: one iteration of "for i, arg in enumerate(args)"
ValidateStep ==
    /\ elev.pc = "loop"
    /\ elev.i <= Len(elev.args)
    /\ elev' = IF elev.skip_next
               THEN [elev EXCEPT !.skip_next = FALSE, !.i = @ + 1]
               ELSE IF Kept(elev.args, elev.i)
               THEN [elev EXCEPT !.safe_args = Append(@, elev.args[elev.i]),
                                 !.i = @ + 1]
               ELSE [elev EXCEPT !.i = @ + 1]
    /\ UNCHANGED <<config, net, scanvars, m_args, m_ret, callvars, workers, fin,
                   args, mainpc, scanner_made, exit_code, interrupted,
                   cancelling, printed>>

\* line 217: return safe_args
ValidateReturn ==
    /\ elev.pc = "loop"
    /\ elev.i > Len(elev.args)
    /\ elev' = [elev EXCEPT !.pc = "returned"]
    /\ UNCHANGED <<config, net, scanvars, m_args, m_ret, callvars, workers, fin,
                   args, mainpc, scanner_made, exit_code, interrupted,
                   cancelling, printed>>

NextElev == ValidateStep \/ ValidateReturn

SpecElev == InitElev /\ [][NextElev]_vars

RECURSIVE Filter(_, _)
Filter(argv, n) ==
    IF n = 0 THEN <<>>
    ELSE LET before == Filter(argv, n - 1) IN
         IF \/ ~HasDangerous(argv[n]) /\ n = 1
            \/ ~HasDangerous(argv[n]) /\ Head(argv[n]) = "-"
            \/ ~HasDangerous(argv[n])
                  /\ (endswith(argv[n], <<".", "p", "y">>)
                        \/ endswith(argv[n], <<".", "t", "x", "t">>))
            \/ ~HasDangerous(argv[n]) /\ n > 1
                  /\ argv[n - 1] \in NUMERIC_FLAGS /\ IsFloatText(argv[n])
         THEN Append(before, argv[n]) ELSE before

(* C36: _validate_arguments returns, in their order, the script name      *)
(* (first argument), the flags, the .py/.txt names and the numeric values  *)
(* that follow a numeric flag; a non-numeric value after such a flag is    *)
(* dropped; no returned token contains a shell metacharacter.              *)
C36_WhitelistKeepsScriptName ==
    elev.pc = "returned" =>
        /\ elev.safe_args = Filter(elev.args, Len(elev.args))
        /\ \A k \in 1..Len(elev.safe_args) : ~HasDangerous(elev.safe_args[k])

-----------------------------------------------------------------------------
(* C37: a worker's completion write changes only the record of its own     *)
(* address and the counters; every record already in results stays as it  *)
(* is, in its place, for the rest of the scan: none is deleted, none is    *)
(* modified.                                                               *)
C37_StoredRecordsNeverChange ==
    [][/\ Len(results') >= Len(results)
       /\ \A i \in 1..Len(results) : results'[i] = results[i]]_vars

-----------------------------------------------------------------------------
(* C38: while a record has accepted at most 10 latencies, its incremental  *)
(* average is the arithmetic mean of the latencies accepted so far; the    *)
(* plain mean sum / count can differ from it only after more than 10.      *)
C38_IncrementalIsMeanUpToTen ==
    /\ accepted.n = record.ping_count
    /\ (accepted.n >= 1 /\ accepted.n <= 10) =>
           record.avg_latency = PlainMeanFloat(accepted)
    /\ (accepted.n >= 1 /\ record.avg_latency # PlainMeanFloat(accepted)) =>
           accepted.n > 10

(* C39: once a record has accepted a latency, avg_latency lies between the *)
(* smallest and the largest latency accepted so far, also after the weight *)
(* has reached its cap of 10.                                              *)
AtMost(a, b) == ~RLess(b, a)

C39_AverageWithinRange ==
    accepted.n >= 1 =>
        /\ AtMost(accepted.lo, record.avg_latency)
        /\ AtMost(record.avg_latency, accepted.hi)

-----------------------------------------------------------------------------
(* The final table and the DNS selection (lines 1109-1261)                 *)

FINAL_FAILED_SORT_KEY == 999999

\* lines 1132-1135: the key (avg_latency or 999999.0, -len(successful_methods))
FinalSortKey(x) ==
    <<IF IsInf(x.avg_latency) THEN Rat(FINAL_FAILED_SORT_KEY) ELSE x.avg_latency,
      0 - Cardinality(x.successful_methods)>>

\* tuples compare by their first components, then by their second
FinalKeyLess(a, b) ==
    \/ RLess(a[1], b[1])
    \/ a[1] = b[1] /\ a[2] < b[2]

RECURSIVE InsertByFinalKey(_, _)
InsertByFinalKey(s, x) ==
    IF s = <<>> THEN <<x>>
    ELSE IF FinalKeyLess(FinalSortKey(x), FinalSortKey(Head(s))) THEN <<x>> \o s
    ELSE <<Head(s)>> \o InsertByFinalKey(Tail(s), x)

RECURSIVE FinalSortedFrom(_, _)
FinalSortedFrom(res, n) ==
    IF n = 0 THEN <<>>
    ELSE InsertByFinalKey(FinalSortedFrom(res, n - 1), res[n])

\* lines 1130-1137: sorted(self.results.values(), key=...)
final_sorted(res) == FinalSortedFrom(res, Len(res))

IsValid(r) == ~IsInf(r.avg_latency)

\* line 1218: [r for r in sorted_results if r.avg_latency != float("inf")]
valid_results(sorted) == SelectSeq(sorted, IsValid)

\* lines 1218-1221: the list the entered rank is looked up in
Ranked(sorted) == valid_results(sorted)

\* lines 1252-1261: the first other valid server of the selected one's
\* provider, 0 when there is none
SecondaryFrom(selected, all_results, provider) ==
    LET fits == {i \in 1..Len(all_results) :
                    /\ all_results[i].server # selected.server
                    /\ provider[all_results[i].server] = provider[selected.server]
                    /\ IsValid(all_results[i])}
    IN  IF fits = {} THEN 0
        ELSE all_results[CHOOSE i \in fits : \A j \in fits : i <= j].server

\* servers in the final table
MaxRanked == 3

\* a record as a worker stores it after one attempt (lines 927-939)
StoredRecord(server, avg, methods) ==
    [DNSResult(server) EXCEPT
        !.latency = avg,
        !.avg_latency = avg,
        !.ping_count = IF IsInf(avg) THEN 0 ELSE 1,
        !.successful_methods = methods,
        !.status = IF IsInf(avg) THEN StatusFailed(1)
                   ELSE StatusOK(methods, 1, 1)]

\* what a scan can leave for one server: failed, or an average with the
\* methods that gave it; the ping probe has no ceiling (line 799-855)
Outcomes ==
    {<<Inf, {}>>}
    \cup {<<Rat(a), m>> : a \in {10, 20, FINAL_FAILED_SORT_KEY + 1},
                          m \in {{PING}, {PING, SOCKET_CONNECT}}}

Providers == {"A", "B"}

Valid(res) == {i \in 1..Len(res) : IsValid(res[i])}

\* run() after _scan_all_servers has returned (line 1548): results holds one
\* record per scanned server, in the order the workers finished
InitFinal ==
    /\ config \in {MakeConfig(f, 1, 1, "some") : f \in {g \in Flags :
          g.enable_ping /\ g.enable_socket /\ ~g.enable_dns_query
          /\ g.HAS_DNSPYTHON}}
    /\ net = {None}
    /\ wk = <<>>
    /\ m_args = [m \in TestMethod |-> None]
    /\ \E n \in 1..MaxRanked :
         /\ dns_servers = [i \in 1..n |-> i]
         /\ \E o \in [1..n -> Outcomes], order \in [1..n -> 1..n] :
              /\ \A i, j \in 1..n : i # j => order[i] # order[j]
              /\ results = [i \in 1..n |->
                              StoredRecord(order[i], o[order[i]][1],
                                           o[order[i]][2])]
         /\ \E prov \in [1..n -> Providers] :
              fin = [NoFinal EXCEPT !.pc = "start", !.provider = prov]
         /\ max_servers \in {m \in 1..MaxRanked : m >= n}
    /\ stats = [scanned |-> Len(results),
                successful |-> Cardinality(Valid(results)),
                failed |-> Len(results) - Cardinality(Valid(results))]
    /\ running = FALSE
    /\ sem_value = 1
    /\ sem_waiters = <<>>
    /\ rpc = "cancelled"
    /\ must_cancel = FALSE
    /\ snapshot = NoSnapshot
    /\ mpc = "returned"
    /\ m_ret = <<>>
    /\ record = DNSResult(1)
    /\ fed = Inf
    /\ accepted = NoAccepted
    /\ calls = 0
    /\ probe_ret = <<>>
    /\ IdleProbe
    /\ IdleIp
    /\ IdlePool
    /\ dns_file = <<>>
    /\ load = NoLoad
    /\ providers = <<>>
    /\ args = NoArgs
    /\ mainpc = "run"
    /\ scanner_made = TRUE
    /\ exit_code = NotExited
    /\ interrupted = FALSE
    /\ cancelling = FALSE
    /\ printed = <<>>
    /\ workers = NoWorkers
    /\ elev = NoElev

\* lines 1129-1199: the table is printed; the prompt follows when a printed
\* row is a successful server
DisplayFinal ==
    /\ fin.pc = "start"
    /\ LET sorted == final_sorted(results)
           shown == SubSeq(sorted, 1, Min(max_servers, Len(sorted)))
           successful_count == Cardinality(Valid(shown))
       IN  fin' = IF results = <<>>
                  THEN [fin EXCEPT !.pc = "no results"]
                  ELSE [fin EXCEPT
                          !.rows = [i \in 1..Len(shown) |-> shown[i].server],
                          !.successful_count = successful_count,
                          !.pc = IF successful_count > 0
                                 THEN "prompt" ELSE "done"]
    /\ UNCHANGED <<config, net, scanvars, m_args, m_ret, callvars, workers,
                   elev, args, mainpc, scanner_made, exit_code, interrupted,
                   cancelling, printed>>

\* what the user types at "Your choice:": nothing, something that is not a
\* number, or a number
Inputs ==
    {[kind |-> "empty", rank |-> 0], [kind |-> "text", rank |-> 0]}
    \cup {[kind |-> "int", rank |-> r] : r \in -1..MaxRanked + 1}

\* lines 1201-1231 and 1252-1261
Select ==
    /\ fin.pc = "prompt"
    /\ \E in \in Inputs :
         LET ranked == Ranked(final_sorted(results)) IN
         fin' = IF in.kind = "empty" THEN [fin EXCEPT !.pc = "skipped"]
                ELSE IF in.kind = "text" THEN [fin EXCEPT !.pc = "cancelled"]
                ELSE IF 1 <= in.rank /\ in.rank <= Len(ranked)
                THEN [fin EXCEPT
                        !.pc = "selected",
                        !.choice = in.rank,
                        !.primary = ranked[in.rank].server,
                        !.secondary = SecondaryFrom(ranked[in.rank], ranked,
                                                    fin.provider)]
                ELSE [fin EXCEPT !.pc = "invalid", !.choice = in.rank]
    /\ UNCHANGED <<config, net, scanvars, m_args, m_ret, callvars, workers,
                   elev, args, mainpc, scanner_made, exit_code, interrupted,
                   cancelling, printed>>

NextFinal == DisplayFinal \/ Select

SpecFinal == InitFinal /\ [][NextFinal]_vars

RecordOf(s) == results[CHOOSE i \in 1..Len(results) : results[i].server = s]

Prompted == fin.pc \in {"prompt", "skipped", "cancelled", "selected", "invalid"}

(* C40: the final table lists the records by ascending avg_latency, of two *)
(* equal averages the one with more successful methods first, failed      *)
(* servers last; the selection prompt appears only when a server          *)
(* succeeded; an accepted rank r selects the server shown at rank r, which *)
(* is not a failed one; a secondary server, when one is chosen, is another *)
(* successful server of the same provider.                                 *)
C40_RankingAndSelection ==
    /\ \A i, j \in 1..Len(fin.rows) :
          LET a == RecordOf(fin.rows[i])
              b == RecordOf(fin.rows[j])
          IN  i < j =>
                /\ IsValid(b) => IsValid(a)
                /\ (IsValid(a) /\ IsValid(b)) =>
                      /\ AtMost(a.avg_latency, b.avg_latency)
                      /\ a.avg_latency = b.avg_latency =>
                            Cardinality(a.successful_methods)
                               >= Cardinality(b.successful_methods)
    /\ Prompted => Valid(results) # {}
    /\ fin.pc = "selected" =>
          /\ fin.choice \in 1..Len(fin.rows)
          /\ fin.primary = fin.rows[fin.choice]
          /\ IsValid(RecordOf(fin.primary))
          /\ fin.secondary # 0 =>
                /\ fin.secondary # fin.primary
                /\ IsValid(RecordOf(fin.secondary))
                /\ fin.provider[fin.secondary] = fin.provider[fin.primary]

====
